---- MODULE Spec2Model ----
(***************************************************************************)
(* Payment-event integration pipeline of the storefront: the Stripe        *)
(* webhook receiver (signature verification, event dispatch) and the       *)
(* projection of a paid checkout session into a Shopify order.             *)
(*                                                                         *)
(* Strings are sequences of one-character strings, so that splitting,      *)
(* trimming, hex encoding and comparison are computed character by         *)
(* character as the code computes them.                                    *)
(***************************************************************************)
EXTENDS Integers, Sequences, FiniteSets, TLC

(***************************************************************************)
(* Characters and JavaScript string primitives                             *)
(***************************************************************************)

\* The printable ASCII characters in code order, in two runs: AsciiLow[i] has
\* code 31 + i (32..95) and AsciiHigh[i] has code 96 + i (97..126).  Code 96
\* (the grave accent) is not used by any string of the model.
AsciiLow ==
  << " ", "!", "\"", "#", "$", "%", "&", "'", "(", ")", "*", "+", ",", "-", ".", "/",
     "0", "1", "2", "3", "4", "5", "6", "7", "8", "9", ":", ";", "<", "=", ">", "?",
     "@", "A", "B", "C", "D", "E", "F", "G", "H", "I", "J", "K", "L", "M", "N", "O",
     "P", "Q", "R", "S", "T", "U", "V", "W", "X", "Y", "Z", "[", "\\", "]", "^", "_" >>

AsciiHigh ==
  << "a", "b", "c", "d", "e", "f", "g", "h", "i", "j", "k", "l", "m", "n", "o",
     "p", "q", "r", "s", "t", "u", "v", "w", "x", "y", "z", "{", "|", "}", "~" >>

AsciiChars ==
  { AsciiLow[i] : i \in 1..Len(AsciiLow) } \cup { AsciiHigh[i] : i \in 1..Len(AsciiHigh) }

\* String.prototype.charCodeAt for one character.
CharCode ==
  [ c \in AsciiChars |->
      IF \E i \in 1..Len(AsciiLow) : AsciiLow[i] = c
      THEN 31 + (CHOOSE i \in 1..Len(AsciiLow) : AsciiLow[i] = c)
      ELSE 96 + (CHOOSE i \in 1..Len(AsciiHigh) : AsciiHigh[i] = c) ]

RECURSIVE BitXor(_, _)
\* a ^ b on non-negative integers.
BitXor(a, b) ==
  IF a = 0 THEN b
  ELSE IF b = 0 THEN a
  ELSE (((a % 2) + (b % 2)) % 2) + 2 * BitXor(a \div 2, b \div 2)

RECURSIVE BitOr(_, _)
\* a | b on non-negative integers.
BitOr(a, b) ==
  IF a = 0 THEN b
  ELSE IF b = 0 THEN a
  ELSE (IF (a % 2) = 1 \/ (b % 2) = 1 THEN 1 ELSE 0) + 2 * BitOr(a \div 2, b \div 2)

RECURSIVE Concat(_)
\* Array.prototype.join("") of a sequence of strings.
Concat(ss) == IF ss = << >> THEN << >> ELSE Head(ss) \o Concat(Tail(ss))

\* String.prototype.split(sep) for a one-character separator: the pieces
\* between consecutive occurrences of sep (one more piece than occurrences,
\* empty pieces kept).
Split(s, sep) ==
  LET seps   == { i \in 1..Len(s) : s[i] = sep }
      n      == Cardinality(seps)
      pos(k) == IF k = 0 THEN 0
                ELSE IF k = n + 1 THEN Len(s) + 1
                ELSE CHOOSE i \in seps : Cardinality({ j \in seps : j <= i }) = k
  IN  [ k \in 1..(n + 1) |-> SubSeq(s, pos(k - 1) + 1, pos(k) - 1) ]

\* String.prototype.split(sep, limit): all the pieces are cut, then at most
\* limit of them are kept (the remainder of the string is dropped, not kept
\* in the last piece).
SplitLimit(s, sep, limit) ==
  LET all == Split(s, sep)
  IN  IF Len(all) <= limit THEN all ELSE SubSeq(all, 1, limit)

IsSpace(c) == c = " "

\* String.prototype.trim: the string from its first to its last character
\* that is not white space.
Trim(s) ==
  LET keep == { i \in 1..Len(s) : ~IsSpace(s[i]) }
  IN  IF keep = {} THEN << >>
      ELSE SubSeq(s, CHOOSE i \in keep : \A j \in keep : i <= j,
                     CHOOSE i \in keep : \A j \in keep : j <= i)

HexDigits == << "0", "1", "2", "3", "4", "5", "6", "7", "8", "9", "a", "b", "c", "d", "e", "f" >>

RECURSIVE ToString16(_)
\* Number.prototype.toString(16) of a non-negative integer.
ToString16(b) ==
  IF b < 16 THEN << HexDigits[b + 1] >>
  ELSE Append(ToString16(b \div 16), HexDigits[(b % 16) + 1])

RECURSIVE PadStart(_, _, _)
\* String.prototype.padStart(n, c) for a one-character filler.
PadStart(s, n, c) == IF Len(s) >= n THEN s ELSE PadStart(<< c >> \o s, n, c)

\* Array.from(bytes).map((b) => b.toString(16).padStart(2, "0")).join("")
HexOf(bytes) == Concat([ i \in 1..Len(bytes) |-> PadStart(ToString16(bytes[i]), 2, "0") ])

\* TextEncoder.encode of an ASCII string: its character codes.
EncodeUtf8(s) == [ i \in 1..Len(s) |-> CharCode[s[i]] ]

(***************************************************************************)
(* HMAC-SHA256 as an injective function of key and message                 *)
(***************************************************************************)

\* Bytes of a digest in the model (SHA-256 has 32; the keys and messages of
\* the model fit in fewer).
DigestBytes == 12

\* crypto.subtle.sign("HMAC", key, message): the digest is a fixed-length
\* byte string determined by (key, message).  It is modelled as an injective
\* function on the inputs of the model: key bytes, a zero byte, message bytes
\* and zero padding, each byte shifted by its position (no character has
\* code zero, so distinct inputs give distinct digests while they fit).
HmacSha256(keyBytes, msgBytes) ==
  LET plain == keyBytes \o << 0 >> \o msgBytes
  IN  [ i \in 1..DigestBytes |->
          ((IF i <= Len(plain) THEN plain[i] ELSE 0) + 37 * i) % 256 ]

\* crypto.subtle.importKey("raw", ...) rejects a zero-length HMAC key.
ImportKeyThrows(secret) == Len(secret) = 0

(***************************************************************************)
(* Webhook signature verifier                                              *)
(***************************************************************************)

\* Mutant: the accumulator is assigned, not or-ed: result = a[i] ^ b[i].
TimingSafeLoopAssign(a, b) ==
  IF Len(a) = 0 THEN 0 ELSE BitXor(CharCode[a[Len(a)]], CharCode[b[Len(a)]])

\* The loop of timingSafeEqual: the accumulator after i iterations,
\* result |= a.charCodeAt(i) ^ b.charCodeAt(i).
TimingSafeLoop(a, b) ==
  LET result[i \in 0..Len(a)] ==
        IF i = 0 THEN 0
        ELSE BitOr(result[i - 1], BitXor(CharCode[a[i]], CharCode[b[i]]))
  IN  result[Len(a)]

timingSafeEqual(a, b) ==
  IF Len(a) # Len(b) THEN FALSE
  ELSE TimingSafeLoop(a, b) = 0

\* The absent value (null / undefined) of an optional string.
NoString == [ k |-> "absent" ]
Str(s) == [ k |-> "str", v |-> s ]

RECURSIVE ParsePartsFirstTimestamp(_, _)
\* Mutant: the first t of the header is kept, a later one is ignored.
ParsePartsFirstTimestamp(parts, acc) ==
  IF parts = << >> THEN acc
  ELSE LET kv == SplitLimit(Head(parts), "=", 2)
           k  == kv[1]
       IN  IF Len(k) = 0 \/ Len(kv) < 2 \/ Len(kv[2]) = 0
           THEN ParsePartsFirstTimestamp(Tail(parts), acc)
           ELSE ParsePartsFirstTimestamp(Tail(parts),
                  [ timestamp |-> IF k = << "t" >> /\ acc.timestamp.k = "absent"
                                  THEN Str(kv[2]) ELSE acc.timestamp,
                    v1s |-> IF k = << "v", "1" >> THEN Append(acc.v1s, kv[2]) ELSE acc.v1s ])

RECURSIVE ParseParts(_, _)
\* The loop over the parts of the header: acc is [timestamp, v1s].
ParseParts(parts, acc) ==
  IF parts = << >> THEN acc
  ELSE LET kv == SplitLimit(Head(parts), "=", 2)
           k  == kv[1]
       IN  IF Len(k) = 0 \/ Len(kv) < 2 \/ Len(kv[2]) = 0
           THEN ParseParts(Tail(parts), acc)
           ELSE ParseParts(Tail(parts),
                  [ timestamp |-> IF k = << "t" >> THEN Str(kv[2]) ELSE acc.timestamp,
                    v1s |-> IF k = << "v", "1" >> THEN Append(acc.v1s, kv[2]) ELSE acc.v1s ])

\* The header split at "," with every part trimmed, then parsed.
ParseSignatureHeader(header) ==
  LET raw   == Split(header, ",")
      parts == [ i \in 1..Len(raw) |-> Trim(raw[i]) ]
  IN  ParseParts(parts, [ timestamp |-> NoString, v1s |-> << >> ])

\* The template string timestamp + "." + rawBody.
SignedPayload(timestamp, rawBody) == timestamp \o << "." >> \o rawBody

\* The hex digest the verifier computes for (timestamp, rawBody, secret).
ComputedSignature(timestamp, rawBody, secret) ==
  HexOf(HmacSha256(EncodeUtf8(secret), EncodeUtf8(SignedPayload(timestamp, rawBody))))

\* for (const candidate of v1s) if (timingSafeEqual(computed, candidate)) return true
AnyCandidateMatches(computed, v1s) ==
  \E i \in 1..Len(v1s) : timingSafeEqual(computed, v1s[i])

\* verifyStripeSignature: "true", "false", or "throws" (a rejected promise).
\* signatureHeader is NoString or Str(chars).
verifyStripeSignature(rawBody, signatureHeader, secret) ==
  IF signatureHeader.k = "absent" \/ Len(signatureHeader.v) = 0 THEN "false"
  ELSE LET p == ParseSignatureHeader(signatureHeader.v)
       IN  IF p.timestamp.k = "absent" \/ Len(p.v1s) = 0 THEN "false"
           ELSE IF ImportKeyThrows(secret) THEN "throws"
           ELSE IF AnyCandidateMatches(ComputedSignature(p.timestamp.v, rawBody, secret), p.v1s)
                THEN "true"
                ELSE "false"

(***************************************************************************)
(* Number formatting                                                       *)
(***************************************************************************)

Digits == << "0", "1", "2", "3", "4", "5", "6", "7", "8", "9" >>

RECURSIVE ToDecimal(_)
\* String(n) of a non-negative integer.
ToDecimal(n) ==
  IF n < 10 THEN << Digits[n + 1] >>
  ELSE Append(ToDecimal(n \div 10), Digits[(n % 10) + 1])

\* Mutant: the integer part and the cents are written one after the other,
\* the cents without their leading zero.
ToFixed2Unpadded(up) == ToDecimal(up \div 100) \o << "." >> \o ToDecimal(up % 100)

\* (up / 100).toFixed(2) for a non-negative integer up.  Number.prototype.toFixed
\* takes the integer n with n / 10^f closest to the number, which for up / 100
\* is up itself; it writes the digits of n, pads them on the left with zeros
\* to f + 1 digits, and puts the point before the last f digits.
ToFixed2(up) ==
  LET f == 2
      m == ToDecimal(up)
      z == IF Len(m) <= f THEN PadStart(m, f + 1, "0") ELSE m
      k == Len(z)
  IN  SubSeq(z, 1, k - f) \o << "." >> \o SubSeq(z, k - f + 1, k)

(***************************************************************************)
(* JSON values.  A JSON text is [chars, wf, val]: its characters, whether  *)
(* it is well-formed JSON, and the value JSON.parse gives for it.          *)
(***************************************************************************)

Absent == [ t |-> "absent" ]
JNull == [ t |-> "null" ]

\* JSON.parse: the value, or "throws" for a text that is not JSON.
JsonParse(text) == IF text.wf THEN [ ok |-> TRUE, val |-> text.val ] ELSE [ ok |-> FALSE ]

CompletedType == "checkout.session.completed"

(***************************************************************************)
(* Order Projector: pure parts                                             *)
(***************************************************************************)

\* parseCompactCart(metadata): JNull, or the parsed value when its typeof is
\* "object" (an object or an array).
parseCompactCart(metadata) ==
  IF metadata.t # "object" THEN JNull
  ELSE LET raw == metadata.cart_compact
       IN  IF raw.t # "string" \/ Len(raw.text.chars) = 0 THEN JNull
           ELSE LET parsed == JsonParse(raw.text)
                IN  IF ~parsed.ok THEN JNull
                    ELSE IF parsed.val.t \notin { "object", "array" } THEN JNull
                    ELSE parsed.val

\* compact?.items ?? []
ItemsOf(compact) ==
  IF compact.t \in { "null", "array" } \/ compact.items.t = "absent"
  THEN [ t |-> "array", elems |-> << >> ]
  ELSE compact.items

\* items.length of an array or a string.
LengthOf(items) == IF items.t = "array" THEN Len(items.elems) ELSE Len(items.v)

\* a ?? b on optional strings.
Coalesce(a, b) == IF a.k = "absent" THEN b ELSE a

\* compact?.email ?? customerEmail
ResolveEmail(compact, customerEmail) ==
  IF compact.t \in { "null", "array" } THEN customerEmail
  ELSE Coalesce(compact.email, customerEmail)

\* item.o.split("|").filter(Boolean), or [] for an absent or empty o.
OptionsPairs(item) ==
  IF item.o.k = "absent" \/ Len(item.o.v) = 0 THEN << >>
  ELSE SelectSeq(Split(item.o.v, "|"), LAMBDA pair : Len(pair) > 0)

\* const [code, value] = pair.split(":", 2)
DecodePair(pair) ==
  LET cv == SplitLimit(pair, ":", 2)
  IN  [ code |-> cv[1], value |-> IF Len(cv) < 2 THEN NoString ELSE Str(cv[2]) ]

\* The properties of one line item.
PropertiesOf(item) ==
  LET pairs   == OptionsPairs(item)
      decoded == [ i \in 1..Len(pairs) |-> DecodePair(pairs[i]) ]
      full    == SelectSeq(decoded,
                   LAMBDA d : Len(d.code) > 0 /\ d.value.k = "str" /\ Len(d.value.v) > 0)
  IN  << [ name |-> << "partNumber" >>, value |-> item.pn ],
         [ name |-> << "unit_price_cents" >>, value |-> ToDecimal(item.up) ],
         [ name |-> << "options_json" >>, value |-> decoded ] >>
      \o [ i \in 1..Len(full) |->
             [ name |-> << "opt_" >> \o full[i].code, value |-> full[i].value.v ] ]

\* The template string n + " (" + pn + ")".
TitleOf(item) == item.n \o << " ", "(" >> \o item.pn \o << ")" >>

\* One back-office line item of a compact item.
LineItemOf(item) ==
  [ title |-> TitleOf(item),
    quantity |-> item.q,
    price |-> ToFixed2(item.up),
    properties |-> PropertiesOf(item) ]

\* items.map(...): defined for an array only (a string has no map method:
\* the call throws a TypeError).
LineItemsThrow(items) == items.t # "array"
LineItemsOf(items) == [ i \in 1..Len(items.elems) |-> LineItemOf(items.elems[i]) ]

\* The order payload; customer is Absent or [t |-> "object", id, email].
OrderPayload(session, compact, items, customer) ==
  [ email |-> ResolveEmail(compact, session.customer_email),
    financial_status |-> "paid",
    line_items |-> LineItemsOf(items),
    note |-> << "Paid via Stripe session ", session.id, ", payment_intent ",
                IF session.payment_intent.k = "absent" THEN << "n", "/", "a" >>
                ELSE session.payment_intent.v >>,
    note_attributes |->
      << [ name |-> "stripe_session_id", value |-> session.id ],
         [ name |-> "stripe_payment_intent",
           value |-> IF session.payment_intent.k = "absent" THEN << >>
                     ELSE session.payment_intent.v ] >>,
    customer_id |-> IF customer.t = "object" /\ customer.id # 0 THEN customer.id ELSE 0 ]

(***************************************************************************)
(* Deliveries the model sends to the webhook                               *)
(***************************************************************************)

\* Concurrent webhook deliveries.
NumDeliveries == 2

WebhookSecret == << "k", "1" >>
EmailA == << "a", "@", "x" >>
EmailB == << "b", "@", "x" >>
Timestamp == << "1", "7" >>

ItemA ==
  [ pn |-> << "P", "1" >>, q |-> 2, up |-> 1999, c |-> << "E", "U", "R" >>,
    o |-> Str(<< "a", ":", "1", "|", "b", ":", "2" >>), n |-> << "L", "a", "m", "p" >> ]
ItemB ==
  [ pn |-> << "P", "2" >>, q |-> 1, up |-> 5, c |-> << "U", "S", "D" >>,
    o |-> NoString, n |-> << "C", "a", "p" >> ]

ItemArray(elems) == [ t |-> "array", elems |-> elems ]
CartValue(email, items) == [ t |-> "object", email |-> email, items |-> items ]
\* A string-valued metadata attribute holding the JSON text of val.
TokenOf(val) == [ t |-> "string", text |-> [ chars |-> << "{" >>, wf |-> TRUE, val |-> val ] ]
\* A metadata attribute cut in the middle: not JSON any more.
TruncatedToken == [ t |-> "string", text |-> [ chars |-> << "{", "." >>, wf |-> FALSE ] ]
Metadata(token) == [ t |-> "object", cart_compact |-> token ]

SessionValue(id, email, intent, metadata) ==
  [ t |-> "object", id |-> id, customer_email |-> email, payment_intent |-> intent,
    metadata |-> metadata ]

EventValue(id, type, data) == [ t |-> "object", id |-> id, type |-> type, data |-> data ]
DataOf(session) == [ t |-> "object", object |-> session ]
Completed(id, session) == EventValue(id, CompletedType, DataOf(session))
BodyText(chars, val) == [ chars |-> chars, wf |-> TRUE, val |-> val ]

Intent == Str(<< "p", "i" >>)

\* The request bodies of the model: events of every shape the handler
\* distinguishes, each with its own characters.
EvOther ==
  BodyText(<< "o" >>, EventValue(<< "e", "0" >>, "payment_intent.succeeded",
    DataOf(SessionValue(<< "s", "0" >>, Str(EmailA), Intent,
                        Metadata(TokenOf(CartValue(Str(EmailA), ItemArray(<< ItemA >>))))))))
EvNull == BodyText(<< "n" >>, JNull)
EvNoData == BodyText(<< "d" >>, EventValue(<< "e", "1" >>, CompletedType, Absent))
EvNoMeta ==
  BodyText(<< "m" >>, Completed(<< "e", "2" >>, SessionValue(<< "s", "2" >>, Str(EmailA), Intent, Absent)))
EvTruncated ==
  BodyText(<< "t" >>, Completed(<< "e", "3" >>,
    SessionValue(<< "s", "3" >>, Str(EmailA), Intent, Metadata(TruncatedToken))))
EvEmptyItems ==
  BodyText(<< "z" >>, Completed(<< "e", "4" >>,
    SessionValue(<< "s", "4" >>, Str(EmailA), Intent,
                 Metadata(TokenOf(CartValue(Str(EmailA), ItemArray(<< >>)))))))
EvArrayCart ==
  BodyText(<< "y" >>, Completed(<< "e", "a" >>,
    SessionValue(<< "s", "a" >>, Str(EmailA), Intent,
                 Metadata(TokenOf([ t |-> "array", elems |-> << >> ])))))
EvBadItems ==
  BodyText(<< "x" >>, Completed(<< "e", "5" >>,
    SessionValue(<< "s", "5" >>, Str(EmailA), Intent,
                 Metadata(TokenOf(CartValue(Str(EmailA), [ t |-> "string", v |-> << "a", "b" >> ]))))))
EvCart1 ==
  BodyText(<< "1" >>, Completed(<< "e", "6" >>,
    SessionValue(<< "s", "6" >>, Str(EmailA), Intent,
                 Metadata(TokenOf(CartValue(Str(EmailA), ItemArray(<< ItemA >>)))))))
EvCart2 ==
  BodyText(<< "2" >>, Completed(<< "e", "7" >>,
    SessionValue(<< "s", "7" >>, Str(EmailB), NoString,
                 Metadata(TokenOf(CartValue(Str(EmailA), ItemArray(<< ItemA, ItemB >>)))))))
EvSessionEmail ==
  BodyText(<< "3" >>, Completed(<< "e", "8" >>,
    SessionValue(<< "s", "8" >>, Str(EmailB), Intent,
                 Metadata(TokenOf(CartValue(NoString, ItemArray(<< ItemB >>)))))))
EvEmptyEmail ==
  BodyText(<< "4" >>, Completed(<< "e", "9" >>,
    SessionValue(<< "s", "9" >>, Str(EmailB), Intent,
                 Metadata(TokenOf(CartValue(Str(<< >>), ItemArray(<< ItemB >>)))))))
EvNoEmail ==
  BodyText(<< "5" >>, Completed(<< "e", "a" >>,
    SessionValue(<< "s", "a" >>, NoString, Intent,
                 Metadata(TokenOf(CartValue(NoString, ItemArray(<< ItemB >>)))))))
NotJsonBody == [ chars |-> << "{", "{" >>, wf |-> FALSE ]

\* The stripe-signature header the provider builds for a body.
SignedHeader(body, secret) ==
  Str(<< "t", "=" >> \o Timestamp \o << ",", "v", "1", "=" >>
      \o ComputedSignature(Timestamp, body.chars, secret))
\* A header signed with another secret.
ForgedHeader(body) == SignedHeader(body, << "z", "z" >>)

Request(body, sig) == [ body |-> body, sig |-> sig ]

\* Largest unit price (in cents) of the first item of a priced cart, and the
\* most items a priced cart holds.
MaxUp == 250
MaxItems == 2

RECURSIVE Power(_, _)
Power(b, e) == IF e = 0 THEN 1 ELSE b * Power(b, e - 1)

\* The i-th item of the priced cart of seed u: prices u, 37u, 1369u, ...
\* cover one to six digits.
PricedItem(u, i) ==
  [ pn |-> << "P" >> \o ToDecimal(i), q |-> i, up |-> u * Power(37, i - 1),
    c |-> << "E", "U", "R" >>,
    o |-> IF i % 2 = 1 THEN Str(<< "a", ":", "1", "|", "b", ":", "2" >>) ELSE NoString,
    n |-> << "N" >> \o ToDecimal(i) ]

\* A completed event whose cart holds n priced items.
EvPriced(u, n) ==
  BodyText(ToDecimal(u) \o << "/" >> \o ToDecimal(n),
    Completed(<< "e", "p" >>,
      SessionValue(<< "s", "p" >>, Str(EmailA), Intent,
        Metadata(TokenOf(CartValue(Str(EmailA), ItemArray([ i \in 1..n |-> PricedItem(u, i) ])))))))

PricedRequests ==
  { Request(EvPriced(u, n), SignedHeader(EvPriced(u, n), WebhookSecret)) :
      u \in 0..MaxUp, n \in 1..MaxItems }

Requests ==
  { Request(EvCart1, SignedHeader(EvCart1, WebhookSecret)),
     Request(EvCart2, SignedHeader(EvCart2, WebhookSecret)),
     Request(EvSessionEmail, SignedHeader(EvSessionEmail, WebhookSecret)),
     Request(EvEmptyEmail, SignedHeader(EvEmptyEmail, WebhookSecret)),
     Request(EvNoEmail, SignedHeader(EvNoEmail, WebhookSecret)),
     Request(EvBadItems, SignedHeader(EvBadItems, WebhookSecret)),
     Request(EvArrayCart, SignedHeader(EvArrayCart, WebhookSecret)),
     Request(EvEmptyItems, SignedHeader(EvEmptyItems, WebhookSecret)),
     Request(EvTruncated, SignedHeader(EvTruncated, WebhookSecret)),
     Request(EvNoMeta, SignedHeader(EvNoMeta, WebhookSecret)),
     Request(EvNoData, SignedHeader(EvNoData, WebhookSecret)),
     Request(EvNull, SignedHeader(EvNull, WebhookSecret)),
     Request(EvOther, SignedHeader(EvOther, WebhookSecret)),
     Request(NotJsonBody, SignedHeader(NotJsonBody, WebhookSecret)),
     Request(EvCart1, ForgedHeader(EvCart1)),
     Request(EvCart1, SignedHeader(EvCart2, WebhookSecret)),
     Request(EvCart1, NoString) }

\* The deliveries of the concurrent runs: two sessions of one buyer, one of
\* another, and a forged one.
ConcurrentRequests ==
  << Request(EvCart1, SignedHeader(EvCart1, WebhookSecret)),
     Request(EvCart2, SignedHeader(EvCart2, WebhookSecret)),
     Request(EvSessionEmail, SignedHeader(EvSessionEmail, WebhookSecret)),
     Request(EvCart1, ForgedHeader(EvCart1)) >>

(***************************************************************************)
(* State                                                                   *)
(***************************************************************************)

VARIABLES
  secret,     \* STRIPE_WEBHOOK_SECRET: NoString when not configured
  deliv,      \* the webhook deliveries: request, handler position, history
  customers,  \* the back-office customer directory, oldest first
  orders,     \* the back-office orders, oldest first
  vcall,      \* the function or handler call under study: inputs, position, locals
  vres        \* its result: "none" until it has one

vars == << secret, deliv, customers, orders, vcall, vres >>

Deliveries == DOMAIN deliv

NoResponse == [ status |-> 0, body |-> "" ]
Outcomes == { "ok", "status", "throw" }

\* A delivery as it arrives.
NewDelivery(req) ==
  [ req |-> req, pc |-> "start", valid |-> "unknown", parsed |-> FALSE,
    dispatched |-> FALSE, calls |-> << >>, customer |-> JNull,
    response |-> NoResponse ]

(***************************************************************************)
(* Webhook handler                                                         *)
(***************************************************************************)

\* return new Response(body, { status })
Respond(rec, status, body) ==
  [ rec EXCEPT !.pc = "done", !.response = [ status |-> status, body |-> body ] ]

\* A call to shopifyFetch leaves the handler.
Issue(rec, op, arg, pc) ==
  [ rec EXCEPT !.pc = pc,
      !.calls = Append(@, [ op |-> op, arg |-> arg, outcome |-> "pending", result |-> << >> ]) ]

\* The call in flight has returned or thrown.
Settle(rec, outcome, result) ==
  [ rec EXCEPT !.calls[Len(rec.calls)].outcome = outcome,
               !.calls[Len(rec.calls)].result = result ]

\* The handler's event once the body is parsed.
EventOf(rec) == JsonParse(rec.req.body).val

\* event.data.object of an event that has them.
SessionOf(event) == event.data.object

\* session.metadata ?? {}
MetadataOrEmpty(session) ==
  IF session.metadata.t = "absent" THEN Metadata(Absent) ELSE session.metadata

CompactOf(event) == parseCompactCart(MetadataOrEmpty(SessionOf(event)))

\* The email customer resolution and the order use.
EmailOf(event) == ResolveEmail(CompactOf(event), SessionOf(event).customer_email)

\* if (!email) return null
NoEmail(email) == email.k = "absent" \/ Len(email.v) = 0

\* createShopifyOrderFromStripe after findOrCreateShopifyCustomer has
\* returned customer: build the line items and the payload, issue the
\* order-create call.  A throw of items.map is caught by the handler, which
\* answers 200.
AfterCustomer(rec, customer) ==
  LET event == EventOf(rec)
      items == ItemsOf(CompactOf(event))
      r     == [ rec EXCEPT !.customer = customer ]
  IN  IF LineItemsThrow(items) THEN Respond(r, 200, "ok")
      ELSE Issue(r, "order", OrderPayload(SessionOf(event), CompactOf(event), items, customer),
                 "order")

\* Mutant: an event id another delivery has already dispatched is skipped.
StartProjectionDedup(rec) ==
  LET event == EventOf(rec)
  IN  IF \E d \in Deliveries :
           deliv[d].dispatched /\ EventOf(deliv[d]).t = "object" /\ EventOf(deliv[d]).id = event.id
      THEN Respond(rec, 200, "ok")
      ELSE IF event.data.t # "object" \/ SessionOf(event).t # "object"
      THEN Respond(rec, 200, "ok")
      ELSE IF LengthOf(ItemsOf(CompactOf(event))) = 0
      THEN Respond(rec, 200, "ok")
      ELSE IF NoEmail(EmailOf(event))
      THEN AfterCustomer(rec, JNull)
      ELSE Issue(rec, "search", EmailOf(event).v, "search")

\* createShopifyOrderFromStripe up to its first await.
StartProjection(rec) ==
  LET event == EventOf(rec)
  IN  IF event.data.t # "object" \/ SessionOf(event).t # "object"
      THEN Respond(rec, 200, "ok")       \* TypeError, caught by the handler
      ELSE IF LengthOf(ItemsOf(CompactOf(event))) = 0
      THEN Respond(rec, 200, "ok")       \* no items: warn and return
      ELSE IF NoEmail(EmailOf(event))
      THEN AfterCustomer(rec, JNull)     \* findOrCreateShopifyCustomer returns null
      ELSE Issue(rec, "search", EmailOf(event).v, "search")

\* getEnv("STRIPE_WEBHOOK_SECRET"), then the body and the header are read.
Receive(d) ==
  /\ deliv[d].pc = "start"
  /\ deliv' = [ deliv EXCEPT ![d] =
                  IF secret.k = "absent" \/ Len(secret.v) = 0
                  THEN Respond(@, 500, "Webhook misconfigured")
                  ELSE [ @ EXCEPT !.pc = "verify" ] ]
  /\ UNCHANGED << secret, customers, orders, vcall, vres >>

\* Mutant: the handler goes on to parse the body whatever the check returned.
VerifySignatureNoReturn(d) ==
  /\ deliv[d].pc = "verify"
  /\ LET valid == verifyStripeSignature(deliv[d].req.body.chars, deliv[d].req.sig, secret.v)
     IN  deliv' = [ deliv EXCEPT ![d] = [ @ EXCEPT !.pc = "parse", !.valid = valid ] ]
  /\ UNCHANGED << secret, customers, orders, vcall, vres >>

\* const valid = await verifyStripeSignature(rawBody, sigHeader, webhookSecret)
VerifySignature(d) ==
  /\ deliv[d].pc = "verify"
  /\ LET valid == verifyStripeSignature(deliv[d].req.body.chars, deliv[d].req.sig, secret.v)
     IN  deliv' = [ deliv EXCEPT ![d] =
                      IF valid = "true" THEN [ @ EXCEPT !.pc = "parse", !.valid = valid ]
                      ELSE IF valid = "false"
                      THEN Respond([ @ EXCEPT !.valid = valid ], 400, "Signature verification failed")
                      ELSE Respond([ @ EXCEPT !.valid = valid ], 500, "unhandled rejection") ]
  /\ UNCHANGED << secret, customers, orders, vcall, vres >>

\* event = JSON.parse(rawBody)
ParseBody(d) ==
  /\ deliv[d].pc = "parse"
  /\ LET parsed == JsonParse(deliv[d].req.body)
     IN  deliv' = [ deliv EXCEPT ![d] =
                      IF parsed.ok
                      THEN [ @ EXCEPT !.pc = "dispatch", !.parsed = TRUE ]
                      ELSE Respond([ @ EXCEPT !.parsed = TRUE ], 400, "Invalid JSON") ]
  /\ UNCHANGED << secret, customers, orders, vcall, vres >>

\* Mutant: every event that is an object is projected, whatever its type.
DispatchAnyType(d) ==
  /\ deliv[d].pc = "dispatch"
  /\ LET rec == [ deliv[d] EXCEPT !.dispatched = TRUE ]
     IN  deliv' = [ deliv EXCEPT ![d] =
                      IF EventOf(rec).t # "object" THEN Respond(rec, 200, "ok")
                      ELSE StartProjection(rec) ]
  /\ UNCHANGED << secret, customers, orders, vcall, vres >>

\* if (event.type === "checkout.session.completed") await createShopifyOrderFromStripe(event)
Dispatch(d) ==
  /\ deliv[d].pc = "dispatch"
  /\ LET rec == [ deliv[d] EXCEPT !.dispatched = TRUE ]
     IN  deliv' = [ deliv EXCEPT ![d] =
                      IF EventOf(rec).t # "object" THEN Respond(rec, 200, "ok")  \* TypeError, caught
                      ELSE IF EventOf(rec).type # CompletedType THEN Respond(rec, 200, "ok")
                      ELSE StartProjection(rec) ]
  /\ UNCHANGED << secret, customers, orders, vcall, vres >>

\* The back-office answer to GET /customers/search.json?query=email:<email>.
SearchResult(directory, email) == SelectSeq(directory, LAMBDA c : c.email = email)

\* Mutant: an empty search result is not followed by a create.
SearchReturnsNoCreate(d, outcome) ==
  /\ deliv[d].pc = "search"
  /\ LET email == deliv[d].calls[Len(deliv[d].calls)].arg
         found == SearchResult(customers, email)
     IN  deliv' = [ deliv EXCEPT ![d] =
                      IF outcome # "ok" THEN AfterCustomer(Settle(@, outcome, << >>), JNull)
                      ELSE IF Len(found) > 0
                      THEN AfterCustomer(Settle(@, "ok", found), found[1])
                      ELSE AfterCustomer(Settle(@, "ok", found), JNull) ]
  /\ UNCHANGED << secret, customers, orders, vcall, vres >>

\* Mutant: a failed search is tried once more.
SearchReturnsRetry(d, outcome) ==
  /\ deliv[d].pc = "search"
  /\ LET email == deliv[d].calls[Len(deliv[d].calls)].arg
         found == SearchResult(customers, email)
     IN  deliv' = [ deliv EXCEPT ![d] =
                      IF outcome # "ok" /\ Len(deliv[d].calls) = 1
                      THEN Issue(Settle(@, outcome, << >>), "search", email, "search")
                      ELSE IF outcome # "ok" THEN AfterCustomer(Settle(@, outcome, << >>), JNull)
                      ELSE IF Len(found) > 0
                      THEN AfterCustomer(Settle(@, "ok", found), found[1])
                      ELSE Issue(Settle(@, "ok", found), "create", email, "create") ]
  /\ UNCHANGED << secret, customers, orders, vcall, vres >>

\* The customer search returns (ok), answers a non-OK status or throws.
SearchReturns(d, outcome) ==
  /\ deliv[d].pc = "search"
  /\ LET email == deliv[d].calls[Len(deliv[d].calls)].arg
         found == SearchResult(customers, email)
     IN  deliv' = [ deliv EXCEPT ![d] =
                      IF outcome # "ok" THEN AfterCustomer(Settle(@, outcome, << >>), JNull)
                      ELSE IF Len(found) > 0
                      THEN AfterCustomer(Settle(@, "ok", found), found[1])
                      ELSE Issue(Settle(@, "ok", found), "create", email, "create") ]
  /\ UNCHANGED << secret, customers, orders, vcall, vres >>

\* The record the back-office creates for POST /customers.json.
NewCustomer(directory, email) == [ t |-> "object", id |-> Len(directory) + 1, email |-> email ]

\* The directory after a customer-create call with the given outcome.
DirectoryAfterCreate(directory, email, outcome) ==
  IF outcome = "ok" THEN Append(directory, NewCustomer(directory, email)) ELSE directory

\* Mutant: a failed customer create is not caught inside the customer
\* resolution and ends the projection.
CreateReturnsUncaught(d, outcome) ==
  /\ deliv[d].pc = "create"
  /\ LET email   == deliv[d].calls[Len(deliv[d].calls)].arg
         created == NewCustomer(customers, email)
     IN  /\ customers' = DirectoryAfterCreate(customers, email, outcome)
         /\ deliv' = [ deliv EXCEPT ![d] =
                         IF outcome = "ok" THEN AfterCustomer(Settle(@, "ok", << created >>), created)
                         ELSE Respond(Settle(@, outcome, << >>), 200, "ok") ]
  /\ UNCHANGED << secret, orders, vcall, vres >>

\* The customer create returns (ok), answers a non-OK status or throws.
CreateReturns(d, outcome) ==
  /\ deliv[d].pc = "create"
  /\ LET email   == deliv[d].calls[Len(deliv[d].calls)].arg
         created == NewCustomer(customers, email)
     IN  /\ customers' = DirectoryAfterCreate(customers, email, outcome)
         /\ deliv' = [ deliv EXCEPT ![d] =
                         IF outcome = "ok" THEN AfterCustomer(Settle(@, "ok", << created >>), created)
                         ELSE AfterCustomer(Settle(@, outcome, << >>), JNull) ]
  /\ UNCHANGED << secret, orders, vcall, vres >>

\* Mutant: a failed order create is not caught and becomes a 500.
OrderReturnsUncaught(d, outcome) ==
  /\ deliv[d].pc = "order"
  /\ orders' = IF outcome = "ok"
               THEN Append(orders, deliv[d].calls[Len(deliv[d].calls)].arg)
               ELSE orders
  /\ deliv' = [ deliv EXCEPT ![d] =
                  IF outcome = "ok" THEN Respond(Settle(@, outcome, << >>), 200, "ok")
                  ELSE Respond(Settle(@, outcome, << >>), 500, "Internal Server Error") ]
  /\ UNCHANGED << secret, customers, vcall, vres >>

\* The order create returns (ok), answers a non-OK status or throws; the
\* handler answers 200 in every case.
OrderReturns(d, outcome) ==
  /\ deliv[d].pc = "order"
  /\ orders' = IF outcome = "ok"
               THEN Append(orders, deliv[d].calls[Len(deliv[d].calls)].arg)
               ELSE orders
  /\ deliv' = [ deliv EXCEPT ![d] = Respond(Settle(@, outcome, << >>), 200, "ok") ]
  /\ UNCHANGED << secret, customers, vcall, vres >>

\* The verifier variables while the webhook is under study.
VerifierIdle == vcall = [ pc |-> "idle" ] /\ vres = "none"

\* The back-office directory before the first delivery: empty, or holding
\* customers with EmailA already.
InitialDirectories ==
  { << >>,
    << [ t |-> "object", id |-> 1, email |-> EmailA ] >>,
    << [ t |-> "object", id |-> 1, email |-> EmailA ],
       [ t |-> "object", id |-> 2, email |-> EmailA ] >> }

\* One delivery of any request of the model, the secret configured or not.
Init ==
  /\ secret \in { NoString, Str(WebhookSecret) }
  /\ \E req \in Requests : deliv = << NewDelivery(req) >>
  /\ customers \in InitialDirectories
  /\ orders = << >>
  /\ VerifierIdle

\* One step of one handler, or one back-office call returning with one of
\* the outcomes outs.
NextOf(outs) ==
  \/ \E d \in Deliveries : Receive(d)
  \/ \E d \in Deliveries : VerifySignature(d)
  \/ \E d \in Deliveries : ParseBody(d)
  \/ \E d \in Deliveries : Dispatch(d)
  \/ \E d \in Deliveries, outcome \in outs : SearchReturns(d, outcome)
  \/ \E d \in Deliveries, outcome \in outs : CreateReturns(d, outcome)
  \/ \E d \in Deliveries, outcome \in outs : OrderReturns(d, outcome)

Next == NextOf(Outcomes)

Spec == Init /\ [][Next]_vars

\* NumDeliveries concurrent deliveries.  Deliveries are interchangeable, so
\* they are numbered in the order of their requests in ConcurrentRequests.
InitConcurrent ==
  /\ secret = Str(WebhookSecret)
  /\ \E pick \in [ 1..NumDeliveries -> 1..Len(ConcurrentRequests) ] :
       /\ \A i, j \in 1..NumDeliveries : i <= j => pick[i] <= pick[j]
       /\ deliv = [ d \in 1..NumDeliveries |-> NewDelivery(ConcurrentRequests[pick[d]]) ]
  /\ customers \in { << >>, << [ t |-> "object", id |-> 1, email |-> EmailA ] >> }
  /\ orders = << >>
  /\ VerifierIdle

\* Back-office calls return or are refused; a throw is handled like a refusal.
NextConcurrent == NextOf({ "ok", "status" })

SpecConcurrent == InitConcurrent /\ [][NextConcurrent]_vars

\* One delivery of a signed completed event with a priced cart.
InitProjector ==
  /\ secret = Str(WebhookSecret)
  /\ \E req \in PricedRequests : deliv = << NewDelivery(req) >>
  /\ customers \in InitialDirectories
  /\ orders = << >>
  /\ VerifierIdle

SpecProjector == InitProjector /\ [][Next]_vars

(***************************************************************************)
(* The signature verifier step by step                                     *)
(***************************************************************************)

\* if (!signatureHeader) return false; the loop over the parts;
\* if (!timestamp || v1s.length === 0) return false
VerifyParseHeader ==
  /\ vcall.pc = "start"
  /\ IF vcall.header.k = "absent" \/ Len(vcall.header.v) = 0
     THEN vcall' = [ vcall EXCEPT !.pc = "done" ] /\ vres' = "false"
     ELSE LET p == ParseSignatureHeader(vcall.header.v)
          IN  IF p.timestamp.k = "absent" \/ Len(p.v1s) = 0
              THEN /\ vcall' = [ vcall EXCEPT !.pc = "done", !.timestamp = p.timestamp,
                                              !.v1s = p.v1s ]
                   /\ vres' = "false"
              ELSE /\ vcall' = [ vcall EXCEPT !.pc = "sign", !.timestamp = p.timestamp,
                                              !.v1s = p.v1s ]
                   /\ vres' = vres
  /\ UNCHANGED << secret, deliv, customers, orders >>

\* importKey, sign, and the hex encoding of the digest.
VerifySign ==
  /\ vcall.pc = "sign"
  /\ IF ImportKeyThrows(vcall.secret)
     THEN vcall' = [ vcall EXCEPT !.pc = "done" ] /\ vres' = "throws"
     ELSE /\ vcall' = [ vcall EXCEPT !.pc = "compare", !.i = 1,
                          !.computed = ComputedSignature(vcall.timestamp.v, vcall.rawBody,
                                                         vcall.secret) ]
          /\ vres' = vres
  /\ UNCHANGED << secret, deliv, customers, orders >>

\* One iteration of the loop over the candidates, or its end.
VerifyCompare ==
  /\ vcall.pc = "compare"
  /\ IF vcall.i > Len(vcall.v1s)
     THEN vcall' = [ vcall EXCEPT !.pc = "done" ] /\ vres' = "false"
     ELSE IF timingSafeEqual(vcall.computed, vcall.v1s[vcall.i])
     THEN vcall' = [ vcall EXCEPT !.pc = "done" ] /\ vres' = "true"
     ELSE vcall' = [ vcall EXCEPT !.i = @ + 1 ] /\ vres' = vres
  /\ UNCHANGED << secret, deliv, customers, orders >>

NextVerify == VerifyParseHeader \/ VerifySign \/ VerifyCompare

\* The webhook variables while the verifier is under study.
WebhookIdle ==
  /\ secret = Str(WebhookSecret)
  /\ deliv = << >>
  /\ customers = << >>
  /\ orders = << >>

\* A call of the verifier: its arguments, and what the model knows about how
\* the header was built (pairs: the key=value pairs it was written from;
\* tamper: the character altered after signing).
VerifierCall(rawBody, header, key, pairs, tamper) ==
  [ pc |-> "start", rawBody |-> rawBody, header |-> header, secret |-> key,
    pairs |-> pairs, tamper |-> tamper,
    timestamp |-> NoString, v1s |-> << >>, computed |-> << >>, i |-> 0 ]

NoTamper == [ field |-> "none", pos |-> 0, ch |-> "" ]

(***************************************************************************)
(* Headers written from key=value pairs                                    *)
(***************************************************************************)

\* Most comma-separated parts of a header of the model.
MaxParts == 3

BodyOne == << "{", "a", "}" >>
BodyTwo == << "{", "b", "}" >>
TimeOne == << "1", "7" >>
TimeTwo == << "4", "2" >>

\* s with its last character replaced by another hex digit.
LastAltered(s) ==
  [ i \in 1..Len(s) |-> IF i < Len(s) THEN s[i] ELSE IF s[i] = "0" THEN "1" ELSE "0" ]

\* A part of a header: the key and the value it was written from (the text
\* before and after its first "="), and its characters in the header.
Pair(key, val) == [ key |-> key, val |-> val, raw |-> key \o << "=" >> \o val ]
Spaced(pair) == [ pair EXCEPT !.raw = << " " >> \o @ \o << " ", " " >> ]
Bare(key) == [ key |-> key, val |-> << >>, raw |-> key ]

\* The parts headers are written from: timestamps, signatures of BodyOne
\* under WebhookSecret that match or not, and malformed parts.
PartMenu ==
  { Pair(<< "t" >>, TimeOne),
    Pair(<< "t" >>, TimeTwo),
    Pair(<< "v", "1" >>, ComputedSignature(TimeOne, BodyOne, WebhookSecret)),
    Spaced(Pair(<< "v", "1" >>, ComputedSignature(TimeTwo, BodyOne, WebhookSecret))),
    Pair(<< "v", "1" >>, LastAltered(ComputedSignature(TimeOne, BodyOne, WebhookSecret))),
    Pair(<< "v", "0" >>, ComputedSignature(TimeOne, BodyOne, WebhookSecret)),
    Pair(<< "t" >>, << >>),
    Pair(<< "t" >>, TimeOne \o << "=", "9" >>),
    Bare(<< "v", "1" >>) }

RECURSIVE JoinRaw(_)
\* The header text of a sequence of parts.
JoinRaw(pairs) ==
  IF pairs = << >> THEN << >>
  ELSE IF Len(pairs) = 1 THEN pairs[1].raw
  ELSE pairs[1].raw \o << "," >> \o JoinRaw(Tail(pairs))

\* Every header of at most MaxParts parts of the menu, and the absent header,
\* with either body.
InitVerify ==
  /\ WebhookIdle
  /\ vres = "none"
  /\ \E body \in { BodyOne, BodyTwo } :
       \/ vcall = VerifierCall(body, NoString, WebhookSecret, << >>, NoTamper)
       \/ \E n \in 0..MaxParts : \E pairs \in [ 1..n -> PartMenu ] :
            vcall = VerifierCall(body, Str(JoinRaw(pairs)), WebhookSecret, pairs, NoTamper)

SpecVerify == InitVerify /\ [][NextVerify]_vars

(***************************************************************************)
(* Headers altered after signing                                           *)
(***************************************************************************)

\* The characters an altered position may get.
TamperChars == { "0", "7", "a", "f", "F", ",", "=", " ", ".", "}" }

\* s with the character at pos replaced by ch.
Altered(s, pos, ch) == [ i \in 1..Len(s) |-> IF i = pos THEN ch ELSE s[i] ]

\* The header t=<T>,v1=<sig>.
HeaderOf(T, sig) == << "t", "=" >> \o T \o << ",", "v", "1", "=" >> \o sig

\* A header built for (body, T) under the secret, then one character of the
\* body, of T or of the hex digest altered, or nothing altered.
InitTamper ==
  /\ WebhookIdle
  /\ vres = "none"
  /\ \E body \in { BodyOne, BodyTwo }, T \in { TimeOne, TimeTwo, << "5" >> } :
       LET sig == ComputedSignature(T, body, WebhookSecret)
       IN  \/ vcall = VerifierCall(body, Str(HeaderOf(T, sig)), WebhookSecret, << >>, NoTamper)
           \/ \E pos \in 1..Len(body) : \E ch \in TamperChars \ { body[pos] } :
                vcall = VerifierCall(Altered(body, pos, ch), Str(HeaderOf(T, sig)), WebhookSecret,
                                     << >>, [ field |-> "body", pos |-> pos, ch |-> ch ])
           \/ \E pos \in 1..Len(T) : \E ch \in TamperChars \ { T[pos] } :
                vcall = VerifierCall(body, Str(HeaderOf(Altered(T, pos, ch), sig)), WebhookSecret,
                                     << >>, [ field |-> "t", pos |-> pos, ch |-> ch ])
           \/ \E pos \in 1..Len(sig) : \E ch \in TamperChars \ { sig[pos] } :
                vcall = VerifierCall(body, Str(HeaderOf(T, Altered(sig, pos, ch))), WebhookSecret,
                                     << >>, [ field |-> "digest", pos |-> pos, ch |-> ch ])

SpecTamper == InitTamper /\ [][NextVerify]_vars

(***************************************************************************)
(* What a request carries, read from the request itself                    *)
(***************************************************************************)

\* The request body is a JSON object of type "checkout.session.completed".
IsCompletedRequest(req) ==
  req.body.wf /\ req.body.val.t = "object" /\ req.body.val.type = CompletedType

\* The compact cart the metadata token of a completed request encodes, or
\* JNull when there is no session, no token, or the token is not the JSON
\* text of an object.
CartCarried(req) ==
  LET ev == req.body.val
  IN  IF ~IsCompletedRequest(req) \/ ev.data.t # "object" THEN JNull
      ELSE LET session == ev.data.object
           IN  IF session.t # "object" \/ session.metadata.t # "object" THEN JNull
               ELSE LET token == session.metadata.cart_compact
                    IN  IF token.t # "string" THEN JNull
                        ELSE IF ~token.text.wf THEN JNull
                        ELSE IF token.text.val.t # "object" THEN JNull
                        ELSE token.text.val

\* The items of the carried cart when they are a list.
ItemsCarried(req) ==
  LET cart == CartCarried(req)
  IN  IF cart.t = "object" /\ cart.items.t = "array" THEN cart.items.elems ELSE << >>

\* The carried cart is null, has no items field, or has an empty item list.
CarriesNoItems(req) ==
  LET cart == CartCarried(req)
  IN  cart.t = "null" \/ cart.items.t = "absent"
        \/ (cart.items.t = "array" /\ Len(cart.items.elems) = 0)

\* The calls of one kind a delivery has issued so far.
CallsOf(d, op) == SelectSeq(deliv[d].calls, LAMBDA c : c.op = op)
OpsOf(d) == [ i \in 1..Len(deliv[d].calls) |-> deliv[d].calls[i].op ]

(***************************************************************************)
(* C1 - signature failure                                                  *)
(***************************************************************************)

\* C1: a delivery whose signature check returned false is answered 400; its
\* body is never parsed as an event, its event type is never dispatched on,
\* and it issues no back-office call.
C1_InvalidSignatureRejected ==
  \A d \in Deliveries :
    deliv[d].valid = "false" =>
      /\ deliv[d].pc = "done"
      /\ deliv[d].response.status = 400
      /\ ~deliv[d].parsed
      /\ ~deliv[d].dispatched
      /\ deliv[d].calls = << >>

\* A forged delivery of a completed event with items has been answered.
C1_Witness ==
  \E d \in Deliveries :
    /\ deliv[d].valid = "false"
    /\ deliv[d].pc = "done"
    /\ Len(ItemsCarried(deliv[d].req)) > 0

(***************************************************************************)
(* C2 - accepted events are always answered 200 "ok"                       *)
(***************************************************************************)

\* C2: with the secret configured, a valid signature and a body that is
\* JSON, the answer is 200 "ok" whatever the event is and whatever the
\* back-office calls do.
C2_AcceptedAlwaysOk ==
  \A d \in Deliveries :
    ( /\ deliv[d].pc = "done"
      /\ secret.k = "str"
      /\ deliv[d].valid = "true"
      /\ deliv[d].req.body.wf )
    => deliv[d].response = [ status |-> 200, body |-> "ok" ]

\* A delivery whose order-create call threw has been answered 200.
C2_Witness ==
  \E d \in Deliveries :
    /\ deliv[d].pc = "done"
    /\ deliv[d].response.status = 200
    /\ \E i \in 1..Len(deliv[d].calls) :
         deliv[d].calls[i].op = "order" /\ deliv[d].calls[i].outcome = "throw"

(***************************************************************************)
(* C3 - when an order is created                                           *)
(***************************************************************************)

\* C3: an order-create call is issued only for a delivery that passed the
\* signature check, whose event type is "checkout.session.completed" and
\* whose token decoded to a cart with at least one item; a delivery of
\* another type, or whose cart is null or has no items, issues no call.
C3_OrderOnlyForCompletedWithItems ==
  \A d \in Deliveries :
    /\ Len(CallsOf(d, "order")) > 0 =>
         /\ deliv[d].valid = "true"
         /\ IsCompletedRequest(deliv[d].req)
         /\ Len(ItemsCarried(deliv[d].req)) >= 1
    /\ (~IsCompletedRequest(deliv[d].req) \/ CarriesNoItems(deliv[d].req)) =>
         deliv[d].calls = << >>

\* An order-create call has been issued and has succeeded.
C3_Witness ==
  \E d \in Deliveries :
    /\ deliv[d].pc = "done"
    /\ Len(CallsOf(d, "order")) = 1
    /\ CallsOf(d, "order")[1].outcome = "ok"
    /\ Len(orders) = 1

(***************************************************************************)
(* C4 - replay of one event                                                *)
(***************************************************************************)

\* Every call a delivery has issued has returned successfully.
AllCallsOk(d) == \A i \in 1..Len(deliv[d].calls) : deliv[d].calls[i].outcome = "ok"

\* The back-office orders whose note attribute names the session.
OrdersOfSession(sid) ==
  { i \in 1..Len(orders) : orders[i].note_attributes[1].value = sid }

\* C4: two deliveries of the identical signed completed event (same id, body
\* and header), the back-office calls succeeding, each issue an order-create
\* call, and the back-office holds two orders of that session.
C4_ReplayCreatesTwoOrders ==
  \A d1, d2 \in Deliveries :
    ( /\ d1 # d2
      /\ deliv[d1].req = deliv[d2].req
      /\ deliv[d1].valid = "true" /\ deliv[d2].valid = "true"
      /\ IsCompletedRequest(deliv[d1].req)
      /\ Len(ItemsCarried(deliv[d1].req)) >= 1
      /\ deliv[d1].pc = "done" /\ deliv[d2].pc = "done"
      /\ AllCallsOk(d1) /\ AllCallsOk(d2) )
    => /\ Len(CallsOf(d1, "order")) = 1
       /\ Len(CallsOf(d2, "order")) = 1
       /\ Cardinality(OrdersOfSession(deliv[d1].req.body.val.data.object.id)) >= 2

\* The identical event has been delivered twice and two orders exist.
C4_Witness ==
  \E d1, d2 \in Deliveries :
    /\ d1 # d2
    /\ deliv[d1].req = deliv[d2].req
    /\ deliv[d1].pc = "done" /\ deliv[d2].pc = "done"
    /\ Len(CallsOf(d1, "order")) = 1 /\ Len(CallsOf(d2, "order")) = 1
    /\ AllCallsOk(d1) /\ AllCallsOk(d2)
    /\ Cardinality(OrdersOfSession(deliv[d1].req.body.val.data.object.id)) = 2

(***************************************************************************)
(* C5 - the customer race                                                  *)
(***************************************************************************)

\* The search of delivery d returned successfully with no customer.
SearchFoundNone(d) ==
  /\ Len(CallsOf(d, "search")) = 1
  /\ CallsOf(d, "search")[1].outcome = "ok"
  /\ CallsOf(d, "search")[1].result = << >>

\* The create of delivery d returned successfully.
CreateSucceeded(d) ==
  /\ Len(CallsOf(d, "create")) = 1
  /\ CallsOf(d, "create")[1].outcome = "ok"

\* The directory records with an email.
RecordsOf(email) == { i \in 1..Len(customers) : customers[i].email = email }

\* C5: when the searches of two deliveries for one email have both returned
\* no customer, both deliveries issue a customer-create call for it, and once
\* both creates have succeeded the directory holds two records of that email.
C5_RaceCreatesTwoCustomers ==
  \A d1, d2 \in Deliveries :
    ( /\ d1 # d2
      /\ SearchFoundNone(d1) /\ SearchFoundNone(d2)
      /\ CallsOf(d1, "search")[1].arg = CallsOf(d2, "search")[1].arg )
    => /\ Len(CallsOf(d1, "create")) = 1
       /\ Len(CallsOf(d2, "create")) = 1
       /\ CallsOf(d1, "create")[1].arg = CallsOf(d1, "search")[1].arg
       /\ CallsOf(d2, "create")[1].arg = CallsOf(d1, "search")[1].arg
       /\ (CreateSucceeded(d1) /\ CreateSucceeded(d2)) =>
            Cardinality(RecordsOf(CallsOf(d1, "search")[1].arg)) >= 2

\* The interleaving exists: both searches found nothing, both creates
\* succeeded, and the directory holds two records of one email.
C5_Witness ==
  \E d1, d2 \in Deliveries :
    /\ d1 # d2
    /\ SearchFoundNone(d1) /\ SearchFoundNone(d2)
    /\ CallsOf(d1, "search")[1].arg = CallsOf(d2, "search")[1].arg
    /\ CreateSucceeded(d1) /\ CreateSucceeded(d2)
    /\ Cardinality(RecordsOf(CallsOf(d1, "search")[1].arg)) = 2

(***************************************************************************)
(* C6 - the calls of one delivery                                          *)
(***************************************************************************)

\* The orders in which one delivery may have issued its calls so far.
CallOrders ==
  { << >>, << "search" >>, << "search", "create" >>, << "search", "order" >>,
    << "search", "create", "order" >>, << "order" >> }

\* C6: the calls of a delivery are issued in the order search, create,
\* order, each at most once; a call is issued only when the one before has
\* completed; a create is issued only after a search that succeeded and
\* returned no customer; nothing is issued once the order create has
\* completed or failed.
C6_CallsSequentialOnce ==
  \A d \in Deliveries :
    LET calls == deliv[d].calls
        n     == Len(calls)
    IN  /\ OpsOf(d) \in CallOrders
        /\ \A i \in 1..(n - 1) : calls[i].outcome # "pending"
        /\ (n > 0 /\ calls[n].outcome = "pending") <=> deliv[d].pc \in { "search", "create", "order" }
        /\ (n > 0 /\ calls[n].outcome = "pending") => deliv[d].pc = calls[n].op
        /\ Len(CallsOf(d, "create")) > 0 => SearchFoundNone(d)
        /\ (n > 0 /\ calls[n].op = "order" /\ calls[n].outcome # "pending") => deliv[d].pc = "done"

\* A delivery has issued all three calls, the create has failed, and the
\* order create was still the next and last call.
C6_Witness ==
  \E d \in Deliveries :
    /\ deliv[d].pc = "done"
    /\ OpsOf(d) = << "search", "create", "order" >>
    /\ deliv[d].calls[2].outcome = "status"

(***************************************************************************)
(* C7 - the order of a cart with n items                                   *)
(***************************************************************************)

\* up / 100 with exactly two decimals: the integer part up div 100, the
\* point, and up mod 100 as two digits.
TwoDecimals(up) ==
  ToDecimal(up \div 100) \o << ".", Digits[((up % 100) \div 10) + 1], Digits[(up % 10) + 1] >>

UsableEmail(e) == e.k = "str" /\ Len(e.v) > 0

\* The email of the carried cart, or the session email when the cart has
\* no usable one.
EmailToResolve(req) ==
  LET cart    == CartCarried(req)
      session == req.body.val.data.object
  IN  IF UsableEmail(cart.email) THEN cart.email ELSE session.customer_email

\* Customer resolution has been entered: the delivery is past the dispatch
\* of a signed completed event with at least one item.
ResolutionEntered(d) ==
  /\ deliv[d].valid = "true"
  /\ deliv[d].dispatched
  /\ Len(ItemsCarried(deliv[d].req)) >= 1

\* C8: customer resolution searches by the cart email, or by the session
\* email whenever the cart has no usable email; a found customer is reused
\* (no create, its id is the order customer_id); when none is found exactly
\* one create is issued with that email, and the id of the created customer
\* is the order customer_id.
C8_ResolveByCartOrSessionEmail ==
  \A d \in Deliveries :
    ResolutionEntered(d) =>
      LET email    == EmailToResolve(deliv[d].req)
          searches == CallsOf(d, "search")
          creates  == CallsOf(d, "create")
          placed   == CallsOf(d, "order")
      IN  /\ UsableEmail(email) => (Len(searches) = 1 /\ searches[1].arg = email.v)
          /\ ~UsableEmail(email) => (searches = << >> /\ creates = << >>)
          /\ (Len(searches) = 1 /\ searches[1].outcome = "ok" /\ Len(searches[1].result) > 0) =>
               /\ creates = << >>
               /\ Len(placed) = 1
               /\ placed[1].arg.customer_id = searches[1].result[1].id
          /\ (Len(searches) = 1 /\ searches[1].outcome = "ok" /\ Len(searches[1].result) = 0) =>
               /\ Len(creates) = 1
               /\ creates[1].arg = searches[1].arg
               /\ (creates[1].outcome = "ok") =>
                    /\ Len(placed) = 1
                    /\ placed[1].arg.customer_id = creates[1].result[1].id

(***************************************************************************)
(* C9 - what the verifier accepts                                          *)
(***************************************************************************)

\* The pairs of the header with a key.
PairsOf(key) == { i \in 1..Len(vcall.pairs) : vcall.pairs[i].key = key }

\* The value the verifier reads from the text after the first "=" of a
\* part: what comes before a further "=".
ValueRead(val) ==
  LET eqs == { i \in 1..Len(val) : val[i] = "=" }
  IN  IF eqs = {} THEN val
      ELSE SubSeq(val, 1, (CHOOSE i \in eqs : \A j \in eqs : i <= j) - 1)

\* The pairs with a key that count: their value as read is not empty.
CountedPairsOf(key) == { i \in PairsOf(key) : Len(ValueRead(vcall.pairs[i].val)) > 0 }

\* C9: Verify never throws and returns true exactly when the header has a t
\* value T, the value of any of its t pairs, and a v1 value equal to the hex
\* HMAC of "T.rawBody".
C9_TrueIffSomeTimestampMatches ==
  vcall.pc = "done" =>
    /\ vres \in { "true", "false" }
    /\ vres = "true" <=>
         /\ vcall.header.k = "str"
         /\ \E i \in CountedPairsOf(<< "t" >>), j \in CountedPairsOf(<< "v", "1" >>) :
              ValueRead(vcall.pairs[j].val) =
                ComputedSignature(ValueRead(vcall.pairs[i].val), vcall.rawBody,
                                  vcall.secret)

\* The last t pair that counts, when there is one.
LastTimestamp ==
  LET ts == CountedPairsOf(<< "t" >>)
  IN  ValueRead(vcall.pairs[CHOOSE i \in ts : \A j \in ts : j <= i].val)

\* C9 as amended: Verify never throws and returns true exactly when the
\* header has a t pair and a v1 pair whose value is the hex HMAC of
\* "T.rawBody", T being the value of the last t pair; values are read up to
\* a further "=", and pairs with an empty value are ignored.  So it is false
\* for a missing header, no t, no v1 or no match, and true when the right
\* signature is any one of several v1 pairs.
C9_TrueIffLastTimestampMatches ==
  vcall.pc = "done" =>
    /\ vres \in { "true", "false" }
    /\ vres = "true" <=>
         /\ vcall.header.k = "str"
         /\ CountedPairsOf(<< "t" >>) # {}
         /\ \E j \in CountedPairsOf(<< "v", "1" >>) :
              ValueRead(vcall.pairs[j].val) =
                ComputedSignature(LastTimestamp, vcall.rawBody, vcall.secret)

\* The verifier has returned true on the second of two v1 candidates.
C9_Witness ==
  /\ vcall.pc = "done"
  /\ vres = "true"
  /\ Len(vcall.v1s) = 2
  /\ vcall.i = 2

\* The verifier step by step and the verifier as one operator agree.
VerifierStepsAgree ==
  vcall.pc = "done" => vres = verifyStripeSignature(vcall.rawBody, vcall.header, vcall.secret)

(***************************************************************************)
(* C10 - one altered character                                             *)
(***************************************************************************)

\* C10: the verifier returns true for the header t=<T>,v1=<hex HMAC of
\* "T.body"> with nothing altered, and false once one character of the body,
\* of T or of the hex digest is altered.
C10_AnyAlterationRejected ==
  vcall.pc = "done" =>
    IF vcall.tamper.field = "none" THEN vres = "true" ELSE vres = "false"

\* A header whose digest had its first character altered to another hex
\* digit has been rejected after the comparison.
C10_Witness ==
  /\ vcall.pc = "done"
  /\ vcall.tamper.field = "digest"
  /\ vcall.tamper.pos = 1
  /\ vcall.tamper.ch = "f"
  /\ Len(vcall.v1s) = 1
  /\ vres = "false"

(***************************************************************************)
(* timingSafeEqual step by step                                            *)
(***************************************************************************)

\* Longest string compared, and the characters the strings are made of.
MaxCompareLen == 3
CompareChars == { "a", "b", "c" }

\* The strings of at most n characters of a set.
StringsUpTo(chars, n) == UNION { [ 1..k -> chars ] : k \in 0..n }

\* Mutant: the loop also stops once a difference has been seen.
CompareLoopStopsAtMismatch(i, n, result) == i < n /\ result = 0

\* The loop condition of timingSafeEqual: i < a.length.
CompareLoopContinues(i, n, result) == i < n

\* if (a.length !== b.length) return false; let result = 0
CompareLength ==
  /\ vcall.pc = "cmp-start"
  /\ IF Len(vcall.a) # Len(vcall.b)
     THEN vcall' = [ vcall EXCEPT !.pc = "cmp-done" ] /\ vres' = "false"
     ELSE vcall' = [ vcall EXCEPT !.pc = "cmp-loop" ] /\ vres' = vres
  /\ UNCHANGED << secret, deliv, customers, orders >>

\* One iteration: result |= a.charCodeAt(i) ^ b.charCodeAt(i); i++
CompareIterate ==
  /\ vcall.pc = "cmp-loop"
  /\ CompareLoopContinues(vcall.i, Len(vcall.a), vcall.result)
  /\ vcall' = [ vcall EXCEPT
                  !.result = BitOr(@, BitXor(CharCode[vcall.a[vcall.i + 1]],
                                             CharCode[vcall.b[vcall.i + 1]])),
                  !.i = @ + 1,
                  !.iterations = @ + 1 ]
  /\ UNCHANGED << secret, deliv, customers, orders, vres >>

\* return result === 0
CompareReturn ==
  /\ vcall.pc = "cmp-loop"
  /\ ~CompareLoopContinues(vcall.i, Len(vcall.a), vcall.result)
  /\ vcall' = [ vcall EXCEPT !.pc = "cmp-done" ]
  /\ vres' = IF vcall.result = 0 THEN "true" ELSE "false"
  /\ UNCHANGED << secret, deliv, customers, orders >>

NextCompare == CompareLength \/ CompareIterate \/ CompareReturn

\* Every pair of strings of at most MaxCompareLen characters.
InitCompare ==
  /\ WebhookIdle
  /\ vres = "none"
  /\ \E a \in StringsUpTo(CompareChars, MaxCompareLen),
        b \in StringsUpTo(CompareChars, MaxCompareLen) :
       vcall = [ pc |-> "cmp-start", a |-> a, b |-> b, i |-> 0, result |-> 0,
                 iterations |-> 0 ]

SpecCompare == InitCompare /\ [][NextCompare]_vars

(***************************************************************************)
(* C11 - the comparison scans every position                               *)
(***************************************************************************)

\* C11: timingSafeEqual returns true exactly when a and b have the same
\* length and the same character at every position; for equal lengths the
\* loop runs once per position wherever the first mismatch is, and for
\* different lengths it does not run at all.
C11_FullLengthScan ==
  vcall.pc = "cmp-done" =>
    /\ vres \in { "true", "false" }
    /\ vres = "true" <=>
         /\ Len(vcall.a) = Len(vcall.b)
         /\ \A k \in 1..Len(vcall.a) : vcall.a[k] = vcall.b[k]
    /\ (vres = "true") = timingSafeEqual(vcall.a, vcall.b)
    /\ Len(vcall.a) = Len(vcall.b) => vcall.iterations = Len(vcall.a)
    /\ Len(vcall.a) # Len(vcall.b) => vcall.iterations = 0

\* Two strings of the longest length that differ at their first position
\* have been compared to the end.
C11_Witness ==
  /\ vcall.pc = "cmp-done"
  /\ Len(vcall.a) = MaxCompareLen
  /\ Len(vcall.b) = MaxCompareLen
  /\ vcall.a[1] # vcall.b[1]
  /\ vcall.a[MaxCompareLen] = vcall.b[MaxCompareLen]
  /\ vcall.iterations = MaxCompareLen
  /\ vres = "false"

(***************************************************************************)
(* JSON texts character by character.  A parsed JSON value is a string, a  *)
(* number [num, scale] (num / 10^scale), one of the literals null, true    *)
(* and false, an array, or an object: its entries [key, val] in the order  *)
(* of the text.                                                            *)
(***************************************************************************)

JString(s) == [ j |-> "str", v |-> s ]
JNumber(n) == [ j |-> "num", v |-> n ]
\* The characters of the literals.
LiteralChars(name) ==
  IF name = "null" THEN << "n", "u", "l", "l" >>
  ELSE IF name = "true" THEN << "t", "r", "u", "e" >>
  ELSE << "f", "a", "l", "s", "e" >>

JLiteral(name) == [ j |-> "lit", v |-> LiteralChars(name) ]
JArray(elems) == [ j |-> "arr", v |-> elems ]
JObject(entries) == [ j |-> "obj", v |-> entries ]
Entry(key, val) == [ key |-> key, val |-> val ]

RECURSIVE ConcatRange(_, _, _)
\* Array.prototype.join("") of the strings lo..hi of a sequence, by halves.
ConcatRange(ss, lo, hi) ==
  IF lo > hi THEN << >>
  ELSE IF lo = hi THEN ss[lo]
  ELSE LET mid == (lo + hi) \div 2
       IN  ConcatRange(ss, lo, mid) \o ConcatRange(ss, mid + 1, hi)

\* Array.prototype.join(sep) of a sequence of strings.
Join(ss, sep) ==
  ConcatRange([ i \in 1..Len(ss) |-> IF i = 1 THEN ss[i] ELSE sep \o ss[i] ], 1, Len(ss))

\* The characters of a string literal of JSON.stringify: a quotation mark
\* and a reverse solidus are escaped, every other character of the model's
\* alphabet (32..126) stands for itself.
QuoteJson(s) ==
  LET special == { i \in 1..Len(s) : s[i] \in { "\"", "\\" } }
      body    == IF special = {} THEN s
                 ELSE ConcatRange([ i \in 1..Len(s) |->
                                      IF i \in special THEN << "\\", s[i] >> ELSE << s[i] >> ],
                                  1, Len(s))
  IN  << "\"" >> \o body \o << "\"" >>

\* The digits of num with the point scale digits from the right.
DecimalString(num, scale) ==
  LET m == ToDecimal(num)
      z == IF Len(m) <= scale THEN PadStart(m, scale + 1, "0") ELSE m
  IN  SubSeq(z, 1, Len(z) - scale) \o << "." >> \o SubSeq(z, Len(z) - scale + 1, Len(z))

\* A number num / 10^scale; scale is 0 for an integer, and otherwise num is
\* not a multiple of ten.
Num(num, scale) == [ num |-> num, scale |-> scale ]
IntNum(n) == Num(n, 0)

\* String(n) of a number.
NumberToString(n) ==
  IF n.scale = 0
  THEN IF n.num < 0 THEN << "-" >> \o ToDecimal(0 - n.num) ELSE ToDecimal(n.num)
  ELSE IF n.num < 0 THEN << "-" >> \o DecimalString(0 - n.num, n.scale)
  ELSE DecimalString(n.num, n.scale)

RECURSIVE JsonStringify(_)
\* JSON.stringify of a value.
JsonStringify(g) ==
  IF g.j = "str" THEN QuoteJson(g.v)
  ELSE IF g.j = "num" THEN NumberToString(g.v)
  ELSE IF g.j = "lit" THEN g.v
  ELSE IF g.j = "arr"
  THEN << "[" >> \o Join([ i \in 1..Len(g.v) |-> JsonStringify(g.v[i]) ], << "," >>) \o << "]" >>
  ELSE << "{" >>
       \o Join([ i \in 1..Len(g.v) |->
                   QuoteJson(g.v[i].key) \o << ":" >> \o JsonStringify(g.v[i].val) ],
               << "," >>)
       \o << "}" >>

DigitChars == { "0", "1", "2", "3", "4", "5", "6", "7", "8", "9" }
DigitValue(c) == CHOOSE d \in 0..9 : Digits[d + 1] = c

RECURSIVE DigitsToInt(_)
DigitsToInt(ds) ==
  IF ds = << >> THEN 0
  ELSE 10 * DigitsToInt(SubSeq(ds, 1, Len(ds) - 1)) + DigitValue(ds[Len(ds)])

\* The number a JSON number token stands for: -? digits ( . digits )?
NumberOfToken(tok) ==
  LET neg   == tok[1] = "-"
      body  == IF neg THEN Tail(tok) ELSE tok
      dots  == { i \in 1..Len(body) : body[i] = "." }
      whole == IF dots = {} THEN body ELSE SubSeq(body, 1, (CHOOSE i \in dots : TRUE) - 1)
      frac0 == IF dots = {} THEN << >>
               ELSE SubSeq(body, (CHOOSE i \in dots : TRUE) + 1, Len(body))
      keep  == { i \in 1..Len(frac0) : frac0[i] # "0" }
      last  == IF keep = {} THEN 0 ELSE CHOOSE i \in keep : \A k \in keep : k <= i
      frac  == SubSeq(frac0, 1, last)
      mag   == DigitsToInt(whole \o frac)
      num   == IF neg THEN 0 - mag ELSE mag
  IN  Num(num, Len(frac))

\* The parser: st is what it expects next, stack the arrays and objects
\* still open, seg the start of the string segment or number being read,
\* buf the string read before seg, result the finished value.
ParserStart ==
  [ st |-> "value", stack |-> << >>, seg |-> 0, buf |-> << >>, iskey |-> FALSE,
    lit |-> "", has |-> FALSE, result |-> JLiteral("null") ]

Frame(kind) == [ kind |-> kind, items |-> << >>, key |-> << >> ]
ParserFails(s) == [ s EXCEPT !.st = "fail" ]

\* A value is complete: it is the result, or goes into the innermost open
\* array or object.
CompleteValue(s, v) ==
  IF s.stack = << >>
  THEN [ s EXCEPT !.st = "after", !.has = TRUE, !.result = v ]
  ELSE LET top == s.stack[Len(s.stack)]
       IN  [ s EXCEPT !.st = "after",
                      !.stack[Len(s.stack)].items =
                         IF top.kind = "arr" THEN Append(@, v)
                         ELSE Append(@, Entry(top.key, v)) ]

\* The innermost open container is closed by ch.
CloseContainer(s, ch) ==
  IF s.stack = << >> THEN ParserFails(s)
  ELSE LET top  == s.stack[Len(s.stack)]
           rest == [ s EXCEPT !.stack = SubSeq(@, 1, Len(@) - 1) ]
       IN  IF ch = "]" /\ top.kind = "arr" THEN CompleteValue(rest, JArray(top.items))
           ELSE IF ch = "}" /\ top.kind = "obj" THEN CompleteValue(rest, JObject(top.items))
           ELSE ParserFails(s)

\* After a value: a comma, the end of the innermost container, or a space.
StepAfterValue(s, ch) ==
  IF ch = " " THEN s
  ELSE IF ch = ","
  THEN IF s.stack = << >> THEN ParserFails(s)
       ELSE [ s EXCEPT !.st = IF s.stack[Len(s.stack)].kind = "arr" THEN "value" ELSE "key" ]
  ELSE IF ch \in { "]", "}" } THEN CloseContainer(s, ch)
  ELSE ParserFails(s)

\* Where a value may start.
StepValue(s, ch, i) ==
  IF ch = " " THEN s
  ELSE IF ch = "\"" THEN [ s EXCEPT !.st = "str", !.iskey = FALSE, !.seg = i + 1, !.buf = << >> ]
  ELSE IF ch = "{" THEN [ s EXCEPT !.st = "keyOrEnd", !.stack = Append(@, Frame("obj")) ]
  ELSE IF ch = "[" THEN [ s EXCEPT !.st = "valueOrEnd", !.stack = Append(@, Frame("arr")) ]
  ELSE IF ch = "-" THEN [ s EXCEPT !.st = "minus", !.seg = i ]
  ELSE IF ch = "0" THEN [ s EXCEPT !.st = "int0", !.seg = i ]
  ELSE IF ch \in DigitChars THEN [ s EXCEPT !.st = "int", !.seg = i ]
  ELSE IF ch = "n" THEN [ s EXCEPT !.st = "lit", !.lit = "null", !.buf = Tail(LiteralChars("null")) ]
  ELSE IF ch = "t" THEN [ s EXCEPT !.st = "lit", !.lit = "true", !.buf = Tail(LiteralChars("true")) ]
  ELSE IF ch = "f" THEN [ s EXCEPT !.st = "lit", !.lit = "false", !.buf = Tail(LiteralChars("false")) ]
  ELSE IF ch = "]" /\ s.st = "valueOrEnd" THEN CloseContainer(s, ch)
  ELSE ParserFails(s)

\* Inside a number.  An exponent is not among the texts of the model.
StepNumber(s, ch, text, i) ==
  IF ch \in DigitChars
  THEN IF s.st = "int0" THEN ParserFails(s)
       ELSE IF s.st = "minus" THEN [ s EXCEPT !.st = IF ch = "0" THEN "int0" ELSE "int" ]
       ELSE IF s.st = "dot" THEN [ s EXCEPT !.st = "frac" ]
       ELSE s
  ELSE IF ch = "." /\ s.st \in { "int0", "int" } THEN [ s EXCEPT !.st = "dot" ]
  ELSE IF s.st \in { "minus", "dot" } \/ ch \in { "e", "E" } THEN ParserFails(s)
  ELSE StepAfterValue(CompleteValue(s, JNumber(NumberOfToken(SubSeq(text, s.seg, i - 1)))), ch)

\* Inside a string.  The escapes of control characters and \u are not among
\* the texts of the model.
StepString(s, ch, text, i) ==
  IF s.st = "esc"
  THEN IF ch \in { "\"", "\\", "/" }
       THEN [ s EXCEPT !.st = "str", !.buf = Append(@, ch), !.seg = i + 1 ]
       ELSE ParserFails(s)
  ELSE IF ch = "\\" THEN [ s EXCEPT !.st = "esc", !.buf = @ \o SubSeq(text, s.seg, i - 1) ]
  ELSE IF ch = "\""
  THEN LET str == s.buf \o SubSeq(text, s.seg, i - 1)
       IN  IF s.iskey
           THEN [ s EXCEPT !.st = "colon", !.buf = << >>, !.stack[Len(s.stack)].key = str ]
           ELSE CompleteValue([ s EXCEPT !.buf = << >> ], JString(str))
  ELSE s

\* One character of the text.
JsonStep(s, text, i) ==
  LET ch == text[i]
  IN  IF s.st = "fail" THEN s
      ELSE IF s.st \in { "str", "esc" } THEN StepString(s, ch, text, i)
      ELSE IF s.st \in { "minus", "int0", "int", "dot", "frac" } THEN StepNumber(s, ch, text, i)
      ELSE IF s.st = "lit"
      THEN IF ch # Head(s.buf) THEN ParserFails(s)
           ELSE IF Len(s.buf) = 1 THEN CompleteValue([ s EXCEPT !.buf = << >> ], JLiteral(s.lit))
           ELSE [ s EXCEPT !.buf = Tail(@) ]
      ELSE IF s.st \in { "value", "valueOrEnd" } THEN StepValue(s, ch, i)
      ELSE IF s.st \in { "key", "keyOrEnd" }
      THEN IF ch = " " THEN s
           ELSE IF ch = "\"" THEN [ s EXCEPT !.st = "str", !.iskey = TRUE, !.seg = i + 1,
                                            !.buf = << >> ]
           ELSE IF ch = "}" /\ s.st = "keyOrEnd" THEN CloseContainer(s, ch)
           ELSE ParserFails(s)
      ELSE IF s.st = "colon"
      THEN IF ch = " " THEN s
           ELSE IF ch = ":" THEN [ s EXCEPT !.st = "value" ]
           ELSE ParserFails(s)
      ELSE StepAfterValue(s, ch)

RECURSIVE RunJson(_, _, _, _)
\* The characters lo..hi of the text, by halves; a parser that has failed
\* stays failed.
RunJson(s, text, lo, hi) ==
  IF lo > hi THEN s
  ELSE IF lo = hi THEN JsonStep(s, text, lo)
  ELSE LET mid == (lo + hi) \div 2
           s1  == RunJson(s, text, lo, mid)
       IN  IF s1.st = "fail" THEN s1 ELSE RunJson(s1, text, mid + 1, hi)

\* The end of the text: a number may end there, and a value must be complete.
JsonFinish(s, text) ==
  IF s.st \in { "int0", "int", "frac" }
  THEN CompleteValue(s, JNumber(NumberOfToken(SubSeq(text, s.seg, Len(text)))))
  ELSE s

\* JSON.parse of a string: the value, or not ok when it throws a SyntaxError.
ParseJsonChars(text) ==
  LET s == JsonFinish(RunJson(ParserStart, text, 1, Len(text)), text)
  IN  IF s.st = "after" /\ s.stack = << >> /\ s.has
      THEN [ ok |-> TRUE, val |-> s.result ]
      ELSE [ ok |-> FALSE ]

(***************************************************************************)
(* Checkout request bodies and the compact cart token                      *)
(***************************************************************************)

\* The value of a property nobody set.
Undefined == [ j |-> "undef" ]

\* value.key of a parsed value: the last entry of that key of an object,
\* undefined for anything else.
Field(g, key) ==
  IF g.j # "obj" THEN Undefined
  ELSE LET at == { i \in 1..Len(g.v) : g.v[i].key = key }
       IN  IF at = {} THEN Undefined
           ELSE g.v[CHOOSE i \in at : \A k \in at : k <= i].val

\* Property names of the request body and of the compact cart.
KeyCustomerEmail == << "c", "u", "s", "t", "o", "m", "e", "r", "E", "m", "a", "i", "l" >>
KeyItems == << "i", "t", "e", "m", "s" >>
KeyLocale == << "l", "o", "c", "a", "l", "e" >>
KeyProductName == << "p", "r", "o", "d", "u", "c", "t", "N", "a", "m", "e" >>
KeyBaseSku == << "b", "a", "s", "e", "S", "k", "u" >>
KeyPartNumber == << "p", "a", "r", "t", "N", "u", "m", "b", "e", "r" >>
KeyQty == << "q", "t", "y" >>
KeyOptions == << "o", "p", "t", "i", "o", "n", "s" >>
KeyUnitPriceCents == << "u", "n", "i", "t", "P", "r", "i", "c", "e", "C", "e", "n", "t", "s" >>
KeyCurrency == << "c", "u", "r", "r", "e", "n", "c", "y" >>
KeyNotes == << "n", "o", "t", "e", "s" >>
KeyCode == << "c", "o", "d", "e" >>
KeyValue == << "v", "a", "l", "u", "e" >>
KeyEmail == << "e", "m", "a", "i", "l" >>
KeyPn == << "p", "n" >>
KeyQ == << "q" >>
KeyUp == << "u", "p" >>
KeyC == << "c" >>
KeyO == << "o" >>
KeyN == << "n" >>

\* String.prototype.toUpperCase on the model's alphabet: a..z become A..Z.
ToUpperCase(s) ==
  [ i \in 1..Len(s) |->
      IF CharCode[s[i]] \in 97..122 THEN AsciiLow[CharCode[s[i]] - 32 - 31] ELSE s[i] ]

\* String.prototype.toLowerCase on the model's alphabet: A..Z become a..z.
ToLowerCase(s) ==
  [ i \in 1..Len(s) |->
      IF CharCode[s[i]] \in 65..90 THEN AsciiHigh[CharCode[s[i]] + 32 - 96] ELSE s[i] ]

\* !value || typeof value !== "string"
NotNonEmptyString(g) == g.j # "str" \/ Len(g.v) = 0

\* typeof value === "string" ? value : undefined
StringOrUndefined(g) == IF g.j = "str" THEN Str(g.v) ELSE NoString

\* n < k and n <= k for a number num / 10^scale and an integer k.
NumLess(n, k) == n.num < k * Power(10, n.scale)
NumAtMost(n, k) == n.num <= k * Power(10, n.scale)

\* The options of a raw item: the entries with a string code and a string
\* value of an array, none for anything else.
SafeOptions(options) ==
  IF options.j # "arr" THEN << >>
  ELSE LET kept == SelectSeq(options.v,
                     LAMBDA opt : Field(opt, KeyCode).j = "str" /\ Field(opt, KeyValue).j = "str")
       IN  [ i \in 1..Len(kept) |->
               [ code |-> Field(kept[i], KeyCode).v, value |-> Field(kept[i], KeyValue).v ] ]

\* The message validateRequestBody throws for a raw item, "" when it throws none.
ItemError(rawItem) ==
  IF rawItem.j \notin { "obj", "arr" } THEN "Invalid item in items array"
  ELSE IF NotNonEmptyString(Field(rawItem, KeyProductName))
  THEN "productName is required for each item"
  ELSE IF NotNonEmptyString(Field(rawItem, KeyPartNumber))
  THEN "partNumber is required for each item"
  ELSE IF Field(rawItem, KeyQty).j # "num" \/ NumLess(Field(rawItem, KeyQty).v, 1)
  THEN "qty must be a positive number for each item"
  ELSE IF \/ Field(rawItem, KeyUnitPriceCents).j # "num"
          \/ Field(rawItem, KeyUnitPriceCents).v.scale # 0
          \/ NumAtMost(Field(rawItem, KeyUnitPriceCents).v, 0)
  THEN "unitPriceCents must be a positive integer for each item"
  ELSE IF NotNonEmptyString(Field(rawItem, KeyCurrency)) \/ Len(Field(rawItem, KeyCurrency).v) # 3
  THEN "currency must be a 3-letter code for each item"
  ELSE IF ToUpperCase(Field(rawItem, KeyCurrency).v) # Field(rawItem, KeyCurrency).v
  THEN "currency must be uppercase 3-letter code"
  ELSE ""

\* The normalized item pushed for a raw item that passed.
NormalizedItem(rawItem) ==
  [ productName |-> Field(rawItem, KeyProductName).v,
    baseSku |-> StringOrUndefined(Field(rawItem, KeyBaseSku)),
    partNumber |-> Field(rawItem, KeyPartNumber).v,
    qty |-> Field(rawItem, KeyQty).v,
    options |-> SafeOptions(Field(rawItem, KeyOptions)),
    unitPriceCents |-> Field(rawItem, KeyUnitPriceCents).v,
    currency |-> Field(rawItem, KeyCurrency).v,
    notes |-> StringOrUndefined(Field(rawItem, KeyNotes)) ]

\* validateRequestBody: [ok, value] or, when it throws, [ok, error].  The
\* loop throws at the first item that fails.
validateRequestBody(body) ==
  IF body.j \notin { "obj", "arr" }
  THEN [ ok |-> FALSE, error |-> "Invalid JSON body" ]
  ELSE IF NotNonEmptyString(Field(body, KeyCustomerEmail))
  THEN [ ok |-> FALSE, error |-> "customerEmail is required" ]
  ELSE IF Field(body, KeyItems).j # "arr" \/ Len(Field(body, KeyItems).v) = 0
  THEN [ ok |-> FALSE, error |-> "items must be a non-empty array" ]
  ELSE LET items == Field(body, KeyItems).v
           bad   == { i \in 1..Len(items) : ItemError(items[i]) # "" }
       IN  IF bad # {}
           THEN [ ok |-> FALSE,
                  error |-> ItemError(items[CHOOSE i \in bad : \A k \in bad : i <= k]) ]
           ELSE [ ok |-> TRUE,
                  value |-> [ customerEmail |-> Field(body, KeyCustomerEmail).v,
                              items |-> [ i \in 1..Len(items) |-> NormalizedItem(items[i]) ],
                              locale |-> StringOrUndefined(Field(body, KeyLocale)) ] ]

\* Most characters of the options string of a compact item, the longest
\* token kept whole, and the characters kept of a longer one.
OptionsLimit == 200
TokenLimit == 4500
TokenKept == 4490

\* String.prototype.slice(0, n)
SliceTo(s, n) == IF Len(s) <= n THEN s ELSE SubSeq(s, 1, n)

\* The o of a compact item: code:value of every option, joined with "|" and
\* cut at OptionsLimit characters.
OptionsString(options) ==
  SliceTo(Join([ i \in 1..Len(options) |-> options[i].code \o << ":" >> \o options[i].value ],
               << "|" >>),
          OptionsLimit)

\* The compact item of an item.
CompactItem(item) ==
  JObject(<< Entry(KeyPn, JString(item.partNumber)),
             Entry(KeyQ, JNumber(item.qty)),
             Entry(KeyUp, JNumber(item.unitPriceCents)),
             Entry(KeyC, JString(item.currency)),
             Entry(KeyO, JString(OptionsString(item.options))),
             Entry(KeyN, JString(item.productName)) >>)

\* The object buildCartCompactMetadata serializes.
CompactCart(input) ==
  JObject(<< Entry(KeyEmail, JString(input.customerEmail)),
             Entry(KeyItems, JArray([ i \in 1..Len(input.items) |-> CompactItem(input.items[i]) ])) >>)

\* Mutant: a token over the limit is cut at the limit and nothing is appended.
CutTokenAtLimit(compact) ==
  IF Len(compact) > TokenLimit THEN SubSeq(compact, 1, TokenLimit) ELSE compact

\* if (compact.length > 4500) compact = compact.slice(0, 4490) + "..."
CutToken(compact) ==
  IF Len(compact) > TokenLimit
  THEN SubSeq(compact, 1, TokenKept) \o << ".", ".", "." >>
  ELSE compact

\* Mutant: the serialization is the token whatever its length.
buildCartCompactMetadataUncut(input) == JsonStringify(CompactCart(input))

\* buildCartCompactMetadata
buildCartCompactMetadata(input) == CutToken(JsonStringify(CompactCart(input)))

(***************************************************************************)
(* The compact cart token as the Order Projector reads it                  *)
(***************************************************************************)

\* A number as the projector's items hold it.
NumShape(n) == IF n.scale = 0 THEN n.num ELSE n

\* A parsed compact item as the projector reads its fields.
ItemShape(g) ==
  [ pn |-> Field(g, KeyPn).v, q |-> NumShape(Field(g, KeyQ).v),
    up |-> NumShape(Field(g, KeyUp).v), c |-> Field(g, KeyC).v,
    o |-> StringOrUndefined(Field(g, KeyO)), n |-> Field(g, KeyN).v ]

\* A parsed token as the projector reads it: email and items of an object,
\* an array, null, or a scalar.
CartShape(g) ==
  IF g.j = "obj"
  THEN [ t |-> "object",
         email |-> StringOrUndefined(Field(g, KeyEmail)),
         items |-> IF Field(g, KeyItems).j = "arr"
                   THEN ItemArray([ i \in 1..Len(Field(g, KeyItems).v) |->
                                      ItemShape(Field(g, KeyItems).v[i]) ])
                   ELSE Absent ]
  ELSE IF g.j = "arr" THEN [ t |-> "array", elems |-> g.v ]
  ELSE IF g.j = "lit" /\ g.v = LiteralChars("null") THEN JNull
  ELSE [ t |-> "scalar", j |-> g.j ]

\* The JSON text of a string of characters.
TextOf(chars) ==
  LET parsed == ParseJsonChars(chars)
  IN  IF parsed.ok THEN [ chars |-> chars, wf |-> TRUE, val |-> CartShape(parsed.val) ]
      ELSE [ chars |-> chars, wf |-> FALSE ]

\* A metadata attribute that is a string.
StringAttribute(chars) == [ t |-> "string", text |-> TextOf(chars) ]

(***************************************************************************)
(* Carts encoded, decoded and projected                                    *)
(***************************************************************************)

\* A request body and its parts.
OptionValue(code, value) ==
  JObject(<< Entry(KeyCode, JString(code)), Entry(KeyValue, JString(value)) >>)

ItemBody(name, pn, qty, up, currency, options) ==
  JObject(<< Entry(KeyProductName, JString(name)),
             Entry(KeyPartNumber, JString(pn)),
             Entry(KeyQty, JNumber(qty)),
             Entry(KeyOptions, JArray(options)),
             Entry(KeyUnitPriceCents, JNumber(up)),
             Entry(KeyCurrency, JString(currency)) >>)

RequestBody(email, items) ==
  JObject(<< Entry(KeyCustomerEmail, JString(email)), Entry(KeyItems, JArray(items)) >>)

\* n times the character c.
Repeat(c, n) == [ i \in 1..n |-> c ]

\* Options of the model's items: complete pairs, pairs with an empty half,
\* values holding the separators, and a value long enough for three of them
\* to pass OptionsLimit.
MaxOptions == 2
LongValueLen == 90

OptionMenu ==
  { OptionValue(<< "k" >>, << "1" >>),
    OptionValue(<< "m" >>, << "r", "e", "d" >>),
    OptionValue(<< >>, << "x" >>),
    OptionValue(<< "e" >>, << >>),
    OptionValue(<< "t" >>, << "1", "0", ":", "3", "0" >>),
    OptionValue(<< "s" >>, << "a", "|", "b" >>),
    OptionValue(<< "w" >>, Repeat("w", LongValueLen)) }

OptionLists ==
  UNION { [ 1..k -> OptionMenu ] : k \in 0..MaxOptions }
  \cup { [ i \in 1..3 |-> OptionValue(<< "w" >>, Repeat("w", LongValueLen)) ] }

\* Small carts: one or two items, every option list, names with characters
\* JSON escapes, an integer and a fractional quantity.
SmallBodies ==
  { RequestBody(EmailA,
      << ItemBody(name, << "P", "1" >>, qty, IntNum(1999), << "E", "U", "R" >>, options) >>
      \o rest) :
      name \in { << "L", "a", "m", "p" >>, << "a", "\"", "b", "\\", "c" >> },
      qty \in { IntNum(2), Num(15, 1) },
      options \in OptionLists,
      rest \in { << >>,
                 << ItemBody(<< "C", "a", "p" >>, << "P", "2" >>, IntNum(1), IntNum(5),
                             << "U", "S", "D" >>,
                             << OptionValue(<< "k" >>, << "1" >>) >>) >> } }

\* Carts around the token limit: the serialization of PaddedBody(total) has
\* total characters, the name of its first item filling what its two other
\* items leave.
PaddedItems(n) ==
  << ItemBody(Repeat("x", n), << "P", "1" >>, IntNum(2), IntNum(1999), << "E", "U", "R" >>,
              << >>),
     ItemBody(<< "C", "a", "\"", "p" >>, << "P", "2" >>, Num(15, 1), IntNum(5),
              << "U", "S", "D" >>,
              << OptionValue(<< "k" >>, << "1" >>), OptionValue(<< "m" >>, << "r", "e", "d" >>) >>),
     ItemBody(<< "H", "a", "t" >>, << "P", "3" >>, IntNum(1), IntNum(120),
              << "E", "U", "R" >>, << >>) >>

SerializedLength(body) == Len(JsonStringify(CompactCart(validateRequestBody(body).value)))

PaddedBody(total) ==
  RequestBody(EmailA,
    PaddedItems(total - (SerializedLength(RequestBody(EmailA, PaddedItems(1))) - 1)))

\* How far under and over the limit the serializations of the padded carts go.
PadBelow == 3
PadAbove == 120

PaddedBodies == { PaddedBody(total) : total \in (TokenLimit - PadBelow)..(TokenLimit + PadAbove) }

\* Raw cart_compact attributes nobody encoded.
RawAttributes ==
  { Absent,
    [ t |-> "number", v |-> 7 ],
    StringAttribute(<< >>),
    StringAttribute(<< "{", "}" >>),
    StringAttribute(<< "[", "]" >>),
    StringAttribute(<< "[", "1", ",", "2", "]" >>),
    StringAttribute(<< "n", "u", "l", "l" >>),
    StringAttribute(<< "7" >>),
    StringAttribute(<< "\"", "s", "\"" >>),
    StringAttribute(<< "t", "r", "u", "e" >>),
    StringAttribute(<< "{", "\"", "i", "t", "e", "m", "s", "\"", ":", "[", "]", "}" >>),
    StringAttribute(<< "{", "\"", "i", "t", "e", "m", "s", "\"", ":", "[" >>),
    StringAttribute(<< "{", "." , ".", "." >>),
    StringAttribute(<< "n", "o" >>) }

\* buildCartCompactMetadata(parsed), attached as metadata.cart_compact
EncodeCart ==
  /\ vcall.pc = "encode"
  /\ vcall' = [ vcall EXCEPT !.pc = "decode",
                             !.metadata = Metadata(StringAttribute(buildCartCompactMetadata(vcall.input))) ]
  /\ UNCHANGED << secret, deliv, customers, orders, vres >>

\* parseCompactCart(session.metadata ?? {}); items = compact?.items ?? [];
\* if (!items.length) return
DecodeCart ==
  /\ vcall.pc = "decode"
  /\ LET compact == parseCompactCart(vcall.metadata)
     IN  vcall' = [ vcall EXCEPT !.pc = IF LengthOf(ItemsOf(compact)) = 0 THEN "codec-done"
                                        ELSE "project",
                                 !.decoded = compact ]
  /\ UNCHANGED << secret, deliv, customers, orders, vres >>

\* const line_items = items.map(...)
ProjectCart ==
  /\ vcall.pc = "project"
  /\ vcall' = [ vcall EXCEPT !.pc = "codec-done", !.projected = TRUE ]
  /\ vres' = LineItemsOf(ItemsOf(vcall.decoded))
  /\ UNCHANGED << secret, deliv, customers, orders >>

NextCodec == EncodeCart \/ DecodeCart \/ ProjectCart

\* origin: "cart" for a token the encoder builds, "raw" for an attribute
\* nobody encoded.
CodecCall(pc, input, metadata) ==
  [ pc |-> pc, origin |-> IF pc = "encode" THEN "cart" ELSE "raw", input |-> input,
    metadata |-> metadata, decoded |-> JNull, projected |-> FALSE ]

\* A validated cart about to be encoded, or a raw attribute about to be
\* decoded.
InitCodec ==
  /\ WebhookIdle
  /\ vres = "none"
  /\ \/ \E body \in SmallBodies \cup PaddedBodies :
          /\ validateRequestBody(body).ok
          /\ vcall = CodecCall("encode", validateRequestBody(body).value, Metadata(Absent))
     \/ \E raw \in RawAttributes :
          vcall = CodecCall("decode", [ customerEmail |-> << >>, items |-> << >>, locale |-> NoString ],
                            Metadata(raw))
     \/ vcall = CodecCall("decode", [ customerEmail |-> << >>, items |-> << >>, locale |-> NoString ],
                          JNull)

SpecCodec == InitCodec /\ [][NextCodec]_vars

(***************************************************************************)
(* C12 - the token stays within the metadata limit                         *)
(***************************************************************************)

\* The token of an encoded cart, and its serialization before any cut.
TokenOfCall == vcall.metadata.cart_compact.text.chars
SerializationOfCall == JsonStringify(CompactCart(vcall.input))
CodecDecoded == vcall.pc \in { "project", "codec-done" }

\* C12: the token of every cart has at most 4500 characters; a serialization
\* of more than 4500 characters gives a token of exactly 4493, its first
\* 4490 characters followed by "...", which decodes to null; a serialization
\* of at most 4500 characters is the token unchanged.
C12_TokenWithinLimit ==
  (CodecDecoded /\ vcall.origin = "cart") =>
    LET full  == SerializationOfCall
        token == TokenOfCall
    IN  /\ Len(token) <= 4500
        /\ IF Len(full) > 4500
           THEN /\ Len(token) = 4493
                /\ SubSeq(token, 1, 4490) = SubSeq(full, 1, 4490)
                /\ SubSeq(token, 4491, 4493) = << ".", ".", "." >>
                /\ vcall.decoded = JNull
           ELSE token = full

\* A cart whose serialization is one character over the limit has been
\* encoded to 4493 characters and decoded to null.
C12_Witness ==
  /\ vcall.pc = "codec-done"
  /\ vcall.origin = "cart"
  /\ Len(TokenOfCall) = 4493
  /\ Len(SerializationOfCall) = 4501
  /\ vcall.decoded = JNull

(***************************************************************************)
(* C13 - decoding gives the cart back                                      *)
(***************************************************************************)

\* The options of an item with a code and a value that are not empty.
NonEmptyOptions(options) ==
  SelectSeq(options, LAMBDA opt : Len(opt.code) > 0 /\ Len(opt.value) > 0)

\* The (code, value) pairs of the opt_<code> properties of a line item, which
\* follow its three fixed properties.
FlattenedOptions(lineItem) ==
  [ k \in 1..(Len(lineItem.properties) - 3) |->
      [ code |-> Tail(lineItem.properties[k + 3].name),
        value |-> lineItem.properties[k + 3].value ] ]

\* C13: for every valid cart whose serialization has at most 4500
\* characters, the decoded token has the pn, q, up and c of every item, and
\* the options decoded from its o are the item's options in their order,
\* without those that have an empty code or an empty value.
C13_DecodeReconstructsCart ==
  (vcall.pc = "codec-done" /\ vcall.origin = "cart" /\ Len(SerializationOfCall) <= 4500) =>
    /\ vcall.decoded.t = "object"
    /\ vcall.decoded.items.t = "array"
    /\ Len(vcall.decoded.items.elems) = Len(vcall.input.items)
    /\ Len(vres) = Len(vcall.input.items)
    /\ \A i \in 1..Len(vcall.input.items) :
         LET item == vcall.decoded.items.elems[i]
             from == vcall.input.items[i]
         IN  /\ item.pn = from.partNumber
             /\ item.q = NumShape(from.qty)
             /\ item.up = NumShape(from.unitPriceCents)
             /\ item.c = from.currency
             /\ FlattenedOptions(vres[i]) = NonEmptyOptions(from.options)

(***************************************************************************)
(* C14 - what the decoder returns                                          *)
(***************************************************************************)

\* The attribute is a string that parses as a JSON object.
ParsesAsJsonObject(metadata) ==
  /\ metadata.t = "object"
  /\ metadata.cart_compact.t = "string"
  /\ ParseJsonChars(metadata.cart_compact.text.chars).ok
  /\ ParseJsonChars(metadata.cart_compact.text.chars).val.j = "obj"

\* C14: the decoder never throws; it returns null whenever the raw token is
\* absent, is not a string or does not parse as a JSON object, and a compact
\* cart only for a string that parses to a JSON object.
C14_NullUnlessJsonObject ==
  CodecDecoded =>
    /\ vcall.decoded.t # "throws"
    /\ ~ParsesAsJsonObject(vcall.metadata) => vcall.decoded = JNull
    /\ vcall.decoded # JNull => vcall.decoded.t = "object"

(***************************************************************************)
(* C15 - option pairs missing a half                                       *)
(***************************************************************************)

\* The text before and after the first ":" of a pair; a pair without ":"
\* has no value.
FirstColon(pair) ==
  LET at == { i \in 1..Len(pair) : pair[i] = ":" }
      p  == IF at = {} THEN Len(pair) + 1 ELSE CHOOSE i \in at : \A k \in at : i <= k
  IN  [ code |-> SubSeq(pair, 1, p - 1), value |-> SubSeq(pair, p + 1, Len(pair)) ]

\* The pairs of an o that have both halves, in order.
CompletePairs(item) ==
  LET pairs == IF item.o.k = "absent" THEN << >> ELSE Split(item.o.v, "|")
      halves == [ k \in 1..Len(pairs) |-> FirstColon(pairs[k]) ]
  IN  SelectSeq(halves, LAMBDA h : Len(h.code) > 0 /\ Len(h.value) > 0)

\* The (code, value) entries of the options_json property of a line item.
OptionsJsonEntries(lineItem) == lineItem.properties[3].value

\* C15: a pair of o missing its code or its value is in neither the
\* options_json property nor an opt_<code> property of the line item, and
\* every pair with both halves is in both, in the original order.
C15_IncompletePairsDropped ==
  (vcall.pc = "codec-done" /\ vcall.projected) =>
    \A i \in 1..Len(vres) :
      LET complete == CompletePairs(vcall.decoded.items.elems[i])
          json     == OptionsJsonEntries(vres[i])
          flat     == FlattenedOptions(vres[i])
      IN  /\ Len(json) = Len(complete)
          /\ Len(flat) = Len(complete)
          /\ \A k \in 1..Len(complete) :
               /\ json[k].code = complete[k].code
               /\ flat[k].code = complete[k].code

(***************************************************************************)
(* encodeStripeForm.  Its input is a value as above: an object is its      *)
(* entries in Object.entries order, and a property may hold undefined.     *)
(***************************************************************************)

\* typeof value is string, number or boolean, or value is null or undefined.
IsPrimitive(value) == value.j \in { "str", "num", "lit", "undef" }

\* value === undefined || value === null
IsNullish(value) == value.j = "undef" \/ (value.j = "lit" /\ value.v = LiteralChars("null"))

\* String(value) of a string, a number or a boolean.
StringOf(value) == IF value.j = "num" THEN NumberToString(value.v) ELSE value.v

\* Mutant: the elements of a list are numbered from one.
IndexKeyFromOne(prefix, index) == prefix \o << "[" >> \o ToDecimal(index + 1) \o << "]" >>

\* The key of the element at index of the list at prefix.
IndexKey(prefix, index) == prefix \o << "[" >> \o ToDecimal(index) \o << "]" >>

\* The key of the property childKey of the object at prefix.
ChildKey(prefix, childKey) ==
  IF Len(prefix) > 0 THEN prefix \o << "[" >> \o childKey \o << "]" >> ELSE childKey

RECURSIVE Walk(_, _)
\* walk(prefix, value): the [name, value] pairs it appends, in order.
Walk(prefix, value) ==
  IF IsPrimitive(value)
  THEN IF IsNullish(value) THEN << >>
       ELSE << [ name |-> prefix, value |-> StringOf(value) ] >>
  ELSE IF value.j = "arr"
  THEN ConcatRange([ i \in 1..Len(value.v) |-> Walk(IndexKey(prefix, i - 1), value.v[i]) ],
                   1, Len(value.v))
  ELSE ConcatRange([ i \in 1..Len(value.v) |->
                       Walk(ChildKey(prefix, value.v[i].key), value.v[i].val) ],
                   1, Len(value.v))

\* for (const [key, value] of Object.entries(data)) walk(key, value)
FormParams(data) ==
  ConcatRange([ i \in 1..Len(data.v) |-> Walk(data.v[i].key, data.v[i].val) ], 1, Len(data.v))

\* The characters the application/x-www-form-urlencoded serializer leaves.
FormSafe(c) ==
  \/ CharCode[c] \in 48..57
  \/ CharCode[c] \in 65..90
  \/ CharCode[c] \in 97..122
  \/ c \in { "*", "-", ".", "_" }

\* One character serialized: itself, "+" for a space, or % and its code in
\* two upper-case hexadecimal digits.
FormEncodeChar(c) ==
  IF FormSafe(c) THEN << c >>
  ELSE IF c = " " THEN << "+" >>
  ELSE << "%" >> \o ToUpperCase(PadStart(ToString16(CharCode[c]), 2, "0"))

FormEncode(s) == ConcatRange([ i \in 1..Len(s) |-> FormEncodeChar(s[i]) ], 1, Len(s))

\* URLSearchParams.prototype.toString
SerializeParams(params) ==
  Join([ i \in 1..Len(params) |->
           FormEncode(params[i].name) \o << "=" >> \o FormEncode(params[i].value) ],
       << "&" >>)

encodeStripeForm(data) == SerializeParams(FormParams(data))

(***************************************************************************)
(* Values encoded as forms                                                 *)
(***************************************************************************)

\* Longest list of the encoded values.
MaxListLen == 2

FormScalars ==
  { JString(<< "x" >>), JString(<< "a", " ", "b", "&", "=" >>), JNumber(IntNum(1)),
    JNumber(Num(15, 1)), JLiteral("true"), JLiteral("null"), Undefined }

FormLists == { JArray(elems) : elems \in UNION { [ 1..k -> FormScalars ] : k \in 0..MaxListLen } }

FormObjects ==
  { JObject(<< Entry(<< "b" >>, v) >>) : v \in FormScalars }
  \cup { JObject(<< Entry(<< "b" >>, v), Entry(<< "c", "_", "d" >>, w) >>) :
           v \in FormScalars, w \in { JString(<< "x" >>), JLiteral("null") } }
  \cup { JObject(<< >>) }

\* The example of the specification: {a: {b: [1, "x", null]}}.
FormExample ==
  JObject(<< Entry(<< "a" >>,
               JObject(<< Entry(<< "b" >>,
                            JArray(<< JNumber(IntNum(1)), JString(<< "x" >>),
                                      JLiteral("null") >>)) >>)) >>)

FormInputs ==
  { JObject(<< Entry(<< "a" >>, v) >>) : v \in FormScalars \cup FormLists \cup FormObjects }
  \cup { JObject(<< Entry(<< "a" >>, JObject(<< Entry(<< "b" >>, l) >>)) >>) : l \in FormLists }
  \cup { JObject(<< Entry(<< "m" >>, JString(<< "p" >>)),
                    Entry(<< "l" >>, JArray(<< o, v >>)) >>) :
           o \in FormObjects, v \in { JLiteral("null"), JNumber(IntNum(1)) } }
  \cup { FormExample, JObject(<< >>) }

\* The walk over the input.
WalkForm ==
  /\ vcall.pc = "form-walk"
  /\ vcall' = [ vcall EXCEPT !.pc = "form-serialize", !.params = FormParams(vcall.data) ]
  /\ UNCHANGED << secret, deliv, customers, orders, vres >>

\* return params.toString()
SerializeForm ==
  /\ vcall.pc = "form-serialize"
  /\ vcall' = [ vcall EXCEPT !.pc = "form-done" ]
  /\ vres' = SerializeParams(vcall.params)
  /\ UNCHANGED << secret, deliv, customers, orders >>

NextForm == WalkForm \/ SerializeForm

InitForm ==
  /\ WebhookIdle
  /\ vres = "none"
  /\ \E data \in FormInputs : vcall = [ pc |-> "form-walk", data |-> data, params |-> << >> ]

SpecForm == InitForm /\ [][NextForm]_vars

(***************************************************************************)
(* C16 - one pair per leaf, keyed by its path                              *)
(***************************************************************************)

\* The character of a code.
CharOfCode(code) == IF code <= 95 THEN AsciiLow[code - 31] ELSE AsciiHigh[code - 96]

UpperHexDigits ==
  << "0", "1", "2", "3", "4", "5", "6", "7", "8", "9", "A", "B", "C", "D", "E", "F" >>
HexValue(c) == (CHOOSE d \in 1..16 : UpperHexDigits[d] = c) - 1

\* A serialized name or value read back: "+" is a space and %XY the
\* character of code XY.
FormDecode(s) ==
  LET inEscape == { i \in 1..Len(s) : (i > 1 /\ s[i - 1] = "%") \/ (i > 2 /\ s[i - 2] = "%") }
      starts   == SelectSeq([ i \in 1..Len(s) |-> i ], LAMBDA i : i \notin inEscape)
  IN  [ k \in 1..Len(starts) |->
          LET i == starts[k]
          IN  IF s[i] = "%" THEN CharOfCode(16 * HexValue(s[i + 1]) + HexValue(s[i + 2]))
              ELSE IF s[i] = "+" THEN " "
              ELSE s[i] ]

\* The pairs of a serialized form, read back.
PairsOfForm(form) ==
  IF form = << >> THEN << >>
  ELSE LET parts == Split(form, "&")
       IN  [ k \in 1..Len(parts) |->
               LET kv == Split(parts[k], "=")
               IN  [ name |-> FormDecode(kv[1]), value |-> FormDecode(kv[2]),
                     halves |-> Len(kv) ] ]

\* The steps of a key in bracket notation: a[b][0] is a, b, 0.
StepsOfKey(name) ==
  LET pieces == Split(name, "[")
  IN  [ k \in 1..Len(pieces) |->
          IF k = 1 THEN pieces[k] ELSE SubSeq(pieces[k], 1, Len(pieces[k]) - 1) ]

\* A key in bracket notation is a top-level key followed by [step]s.
WellBracketed(name) ==
  LET pieces == Split(name, "[")
  IN  /\ "]" \notin { pieces[1][i] : i \in 1..Len(pieces[1]) }
      /\ \A k \in 2..Len(pieces) :
           /\ Len(pieces[k]) > 0
           /\ { i \in 1..Len(pieces[k]) : pieces[k][i] = "]" } = { Len(pieces[k]) }

\* The position in its container of the child a step names: the place of the
\* entry of that key in an object, one more than the index in a list, 0 when
\* there is no such child.
ChildPosition(value, step) ==
  IF value.j = "obj"
  THEN LET at == { i \in 1..Len(value.v) : value.v[i].key = step }
       IN  IF at = {} THEN 0 ELSE CHOOSE i \in at : TRUE
  ELSE IF value.j = "arr"
  THEN IF /\ Len(step) > 0
          /\ \A i \in 1..Len(step) : step[i] \in DigitChars
          /\ ToDecimal(DigitsToInt(step)) = step
          /\ DigitsToInt(step) < Len(value.v)
       THEN DigitsToInt(step) + 1
       ELSE 0
  ELSE 0

ChildAt(value, pos) == IF value.j = "obj" THEN value.v[pos].val ELSE value.v[pos]

RECURSIVE PositionsOfSteps(_, _)
\* The positions along the steps from a value, << 0 >> when a step leads
\* nowhere.
PositionsOfSteps(value, steps) ==
  IF steps = << >> THEN << >>
  ELSE LET pos == ChildPosition(value, Head(steps))
       IN  IF pos = 0 THEN << 0 >>
           ELSE << pos >> \o PositionsOfSteps(ChildAt(value, pos), Tail(steps))

RECURSIVE ValueAtPositions(_, _)
ValueAtPositions(value, positions) ==
  IF positions = << >> THEN value
  ELSE ValueAtPositions(ChildAt(value, Head(positions)), Tail(positions))

RECURSIVE LeafCount(_)
\* The scalar leaves of a value that are neither null nor absent.
LeafCount(value) ==
  IF IsPrimitive(value) THEN IF IsNullish(value) THEN 0 ELSE 1
  ELSE LET counts == [ i \in 1..Len(value.v) |-> LeafCount(ChildAt(value, i)) ]
           sum[i \in 0..Len(counts)] == IF i = 0 THEN 0 ELSE sum[i - 1] + counts[i]
       IN  sum[Len(counts)]

\* p comes before q in depth-first order.
Before(p, q) ==
  \E k \in 1..Len(p) :
    /\ k <= Len(q)
    /\ p[k] < q[k]
    /\ \A i \in 1..(k - 1) : p[i] = q[i]

\* C16: the form has exactly one key=value pair per scalar leaf that is not
\* null or absent; the key of a pair is the path to its leaf in bracket
\* notation, a list element under its original index, and the value is the
\* leaf as a string, both percent-encoded; the pairs are in depth-first
\* order of the input.
C16_OnePairPerLeafByPath ==
  vcall.pc = "form-done" =>
    LET pairs == PairsOfForm(vres)
        path(k) == PositionsOfSteps(vcall.data, StepsOfKey(pairs[k].name))
    IN  /\ Len(pairs) = LeafCount(vcall.data)
        /\ \A k \in 1..Len(pairs) :
             /\ pairs[k].halves = 2
             /\ WellBracketed(pairs[k].name)
             /\ 0 \notin { path(k)[i] : i \in 1..Len(path(k)) }
             /\ IsPrimitive(ValueAtPositions(vcall.data, path(k)))
             /\ ~IsNullish(ValueAtPositions(vcall.data, path(k)))
             /\ pairs[k].value = StringOf(ValueAtPositions(vcall.data, path(k)))
        /\ \A k \in 1..(Len(pairs) - 1) : Before(path(k), path(k + 1))

\* The example of the specification has been encoded to
\* a%5Bb%5D%5B0%5D=1&a%5Bb%5D%5B1%5D=x.
C16_Witness ==
  /\ vcall.pc = "form-done"
  /\ vcall.data = FormExample
  /\ vres = << "a", "%", "5", "B", "b", "%", "5", "D", "%", "5", "B", "0", "%", "5", "D", "=", "1",
               "&",
               "a", "%", "5", "B", "b", "%", "5", "D", "%", "5", "B", "1", "%", "5", "D", "=", "x" >>

(***************************************************************************)
(* The create-checkout-session and checkout-status handlers                *)
(***************************************************************************)

\* Options named in the description of a line item, and the most characters
\* of a description.
DescriptionOptions == 4
DescriptionLimit == 500

\* The texts the handlers write.
TextPart == << "P", "a", "r", "t", ":", " " >>
TextOptions == << "O", "p", "t", "i", "o", "n", "s", ":", " " >>
TextNotes == << "N", "o", "t", "e", "s", ":", " " >>
TextModePayment == << "p", "a", "y", "m", "e", "n", "t" >>
TextSuccessPath == << "/", "s", "u", "c", "c", "e", "s", "s", "?", "s", "e", "s", "s", "i", "o", "n", "_",
     "i", "d", "=", "{", "C", "H", "E", "C", "K", "O", "U", "T", "_", "S", "E", "S",
     "S", "I", "O", "N", "_", "I", "D", "}" >>
TextCancelPath == << "/", "c", "a", "r", "t" >>
TextLocalSite == << "h", "t", "t", "p", ":", "/", "/", "l", "o", "c", "a", "l", "h", "o", "s", "t", ":",
     "4", "3", "2", "1" >>
TextSessionsUrl == << "h", "t", "t", "p", "s", ":", "/", "/", "a", "p", "i", ".", "s", "t", "r", "i", "p",
     "e", ".", "c", "o", "m", "/", "v", "1", "/", "c", "h", "e", "c", "k", "o", "u",
     "t", "/", "s", "e", "s", "s", "i", "o", "n", "s" >>
TextBearer == << "B", "e", "a", "r", "e", "r", " " >>
TextPaid == << "p", "a", "i", "d" >>
MsgInvalidJson == << "U", "n", "e", "x", "p", "e", "c", "t", "e", "d", " ", "t", "o", "k", "e", "n" >>
MsgInvalidBody == << "I", "n", "v", "a", "l", "i", "d", " ", "J", "S", "O", "N", " ", "b", "o", "d",
     "y" >>
MsgMisconfigured == << "S", "e", "r", "v", "e", "r", " ", "m", "i", "s", "c", "o", "n", "f", "i", "g", "u",
     "r", "a", "t", "i", "o", "n" >>
\* The name of the secret of the provider, and the message getEnv throws
\* with for a key.
TextStripeSecretKey == << "S", "T", "R", "I", "P", "E", "_", "S", "E", "C", "R", "E", "T", "_", "K", "E",
     "Y" >>
MissingEnvMessage(key) == << "M", "i", "s", "s", "i", "n", "g", " ", "r", "e", "q", "u", "i", "r", "e", "d", " ",
     "e", "n", "v", "i", "r", "o", "n", "m", "e", "n", "t", " ", "v", "a", "r", "i",
     "a", "b", "l", "e", ":", " " >> \o key
MsgMisconfiguredStatus ==
  << "S", "e", "r", "v", "e", "r", " ", "m", "i", "s", "c", "o", "n", "f", "i", "g", "u",
     "r", "a", "t", "i", "o", "n", " ", "(", "s", "t", "a", "t", "u", "s", ")", ":",
     " " >> \o MissingEnvMessage(TextStripeSecretKey)
MsgCreateFailed == << "F", "a", "i", "l", "e", "d", " ", "t", "o", " ", "c", "r", "e", "a", "t", "e", " ",
     "S", "t", "r", "i", "p", "e", " ", "C", "h", "e", "c", "k", "o", "u", "t", " ",
     "S", "e", "s", "s", "i", "o", "n" >>
MsgInvalidResponse == << "I", "n", "v", "a", "l", "i", "d", " ", "S", "t", "r", "i", "p", "e", " ", "r", "e",
     "s", "p", "o", "n", "s", "e" >>
MsgSessionIdRequired == << "s", "e", "s", "s", "i", "o", "n", "_", "i", "d", " ", "i", "s", " ", "r", "e", "q",
     "u", "i", "r", "e", "d" >>
MsgFetchFailed == << "F", "a", "i", "l", "e", "d", " ", "t", "o", " ", "f", "e", "t", "c", "h", " ", "S",
     "t", "r", "i", "p", "e", " ", "C", "h", "e", "c", "k", "o", "u", "t", " ", "S",
     "e", "s", "s", "i", "o", "n" >>

KeyError == << "e", "r", "r", "o", "r" >>
KeyUrl == << "u", "r", "l" >>
KeySessionId == << "s", "e", "s", "s", "i", "o", "n", "I", "d" >>
KeyId == << "i", "d" >>
KeyPaid == << "p", "a", "i", "d" >>
KeyPaymentIntent == << "p", "a", "y", "m", "e", "n", "t", "I", "n", "t", "e", "n", "t" >>
KeyPaymentStatus == << "p", "a", "y", "m", "e", "n", "t", "_", "s", "t", "a", "t", "u", "s" >>
KeyPaymentIntentOfSession == << "p", "a", "y", "m", "e", "n", "t", "_", "i", "n", "t", "e", "n", "t" >>
KeyMode == << "m", "o", "d", "e" >>
KeyCustomerEmailOfSession == << "c", "u", "s", "t", "o", "m", "e", "r", "_", "e", "m", "a", "i", "l" >>
KeySuccessUrl == << "s", "u", "c", "c", "e", "s", "s", "_", "u", "r", "l" >>
KeyCancelUrl == << "c", "a", "n", "c", "e", "l", "_", "u", "r", "l" >>
KeyMetadata == << "m", "e", "t", "a", "d", "a", "t", "a" >>
KeyCartCompact == << "c", "a", "r", "t", "_", "c", "o", "m", "p", "a", "c", "t" >>
KeyLineItems == << "l", "i", "n", "e", "_", "i", "t", "e", "m", "s" >>
KeyPriceData == << "p", "r", "i", "c", "e", "_", "d", "a", "t", "a" >>
KeyUnitAmount == << "u", "n", "i", "t", "_", "a", "m", "o", "u", "n", "t" >>
KeyProductData == << "p", "r", "o", "d", "u", "c", "t", "_", "d", "a", "t", "a" >>
KeyName == << "n", "a", "m", "e" >>
KeyDescription == << "d", "e", "s", "c", "r", "i", "p", "t", "i", "o", "n" >>
KeyQuantity == << "q", "u", "a", "n", "t", "i", "t", "y" >>

\* The chars of a message of validateRequestBody.
ValidationMessage(error) ==
  IF error = "Invalid JSON body" THEN MsgInvalidBody
  ELSE IF error = "customerEmail is required" THEN << "c", "u", "s", "t", "o", "m", "e", "r", "E", "m", "a", "i", "l", " ", "i", "s", " ",
     "r", "e", "q", "u", "i", "r", "e", "d" >>
  ELSE IF error = "items must be a non-empty array" THEN << "i", "t", "e", "m", "s", " ", "m", "u", "s", "t", " ", "b", "e", " ", "a", " ", "n",
     "o", "n", "-", "e", "m", "p", "t", "y", " ", "a", "r", "r", "a", "y" >>
  ELSE IF error = "Invalid item in items array" THEN << "I", "n", "v", "a", "l", "i", "d", " ", "i", "t", "e", "m", " ", "i", "n", " ", "i",
     "t", "e", "m", "s", " ", "a", "r", "r", "a", "y" >>
  ELSE IF error = "productName is required for each item"
  THEN << "p", "r", "o", "d", "u", "c", "t", "N", "a", "m", "e", " ", "i", "s", " ", "r", "e",
     "q", "u", "i", "r", "e", "d", " ", "f", "o", "r", " ", "e", "a", "c", "h", " ",
     "i", "t", "e", "m" >>
  ELSE IF error = "partNumber is required for each item"
  THEN << "p", "a", "r", "t", "N", "u", "m", "b", "e", "r", " ", "i", "s", " ", "r", "e", "q",
     "u", "i", "r", "e", "d", " ", "f", "o", "r", " ", "e", "a", "c", "h", " ", "i",
     "t", "e", "m" >>
  ELSE IF error = "qty must be a positive number for each item"
  THEN << "q", "t", "y", " ", "m", "u", "s", "t", " ", "b", "e", " ", "a", " ", "p", "o", "s",
     "i", "t", "i", "v", "e", " ", "n", "u", "m", "b", "e", "r", " ", "f", "o", "r",
     " ", "e", "a", "c", "h", " ", "i", "t", "e", "m" >>
  ELSE IF error = "unitPriceCents must be a positive integer for each item"
  THEN << "u", "n", "i", "t", "P", "r", "i", "c", "e", "C", "e", "n", "t", "s", " ", "m", "u",
     "s", "t", " ", "b", "e", " ", "a", " ", "p", "o", "s", "i", "t", "i", "v", "e",
     " ", "i", "n", "t", "e", "g", "e", "r", " ", "f", "o", "r", " ", "e", "a", "c",
     "h", " ", "i", "t", "e", "m" >>
  ELSE IF error = "currency must be a 3-letter code for each item"
  THEN << "c", "u", "r", "r", "e", "n", "c", "y", " ", "m", "u", "s", "t", " ", "b", "e", " ",
     "a", " ", "3", "-", "l", "e", "t", "t", "e", "r", " ", "c", "o", "d", "e", " ",
     "f", "o", "r", " ", "e", "a", "c", "h", " ", "i", "t", "e", "m" >>
  ELSE << "c", "u", "r", "r", "e", "n", "c", "y", " ", "m", "u", "s", "t", " ", "b", "e", " ",
     "u", "p", "p", "e", "r", "c", "a", "s", "e", " ", "3", "-", "l", "e", "t", "t",
     "e", "r", " ", "c", "o", "d", "e" >>

\* getEnv(key) throws: !value || typeof value !== "string"
EnvMissing(value) == value.k # "str" \/ Len(value.v) = 0

\* The text of an optional string, undefined when it is absent.
OptionalString(s) == IF s.k = "str" THEN JString(s.v) ELSE Undefined

\* item.options.slice(0, 4).map(opt => code + ": " + value).join(", ")
OptionsDesc(item) ==
  LET shown == SliceTo(item.options, DescriptionOptions)
  IN  Join([ i \in 1..Len(shown) |-> shown[i].code \o << ":", " " >> \o shown[i].value ],
           << ",", " " >>)

\* descriptionParts.join(" | ").slice(0, 500)
DescriptionOf(item) ==
  LET optionsDesc == OptionsDesc(item)
      parts == << TextPart \o item.partNumber >>
               \o (IF Len(optionsDesc) > 0 THEN << TextOptions \o optionsDesc >> ELSE << >>)
               \o (IF item.notes.k = "str" /\ Len(item.notes.v) > 0
                   THEN << TextNotes \o item.notes.v >> ELSE << >>)
  IN  SliceTo(Join(parts, << " ", "|", " " >>), DescriptionLimit)

\* Mutant: every line item is for one unit.
LineQuantityOne(item) == JNumber(IntNum(1))

\* quantity: item.qty
LineQuantity(item) == JNumber(item.qty)

\* The line item of an item.
LineItem(item) ==
  JObject(<< Entry(KeyPriceData,
               JObject(<< Entry(KeyCurrency, JString(ToLowerCase(item.currency))),
                          Entry(KeyUnitAmount, JNumber(item.unitPriceCents)),
                          Entry(KeyProductData,
                            JObject(<< Entry(KeyName, JString(item.productName)),
                                       Entry(KeyDescription, JString(DescriptionOf(item))) >>)) >>)),
             Entry(KeyQuantity, LineQuantity(item)) >>)

\* The payload of the session-create call.
Payload(parsed, publicSiteUrl) ==
  JObject(<< Entry(KeyMode, JString(TextModePayment)),
             Entry(KeyCustomerEmailOfSession, JString(parsed.customerEmail)),
             Entry(KeySuccessUrl, JString(publicSiteUrl \o TextSuccessPath)),
             Entry(KeyCancelUrl, JString(publicSiteUrl \o TextCancelPath)),
             Entry(KeyMetadata,
               JObject(<< Entry(KeyCartCompact, JString(buildCartCompactMetadata(parsed))) >>)),
             Entry(KeyCurrency, JString(ToLowerCase(parsed.items[1].currency))),
             Entry(KeyLineItems, JArray([ i \in 1..Len(parsed.items) |-> LineItem(parsed.items[i]) ])),
             Entry(KeyLocale, OptionalString(parsed.locale)) >>)

\* encodeURIComponent on the session ids of the model: letters, digits and
\* -_.!~*'() stand for themselves, every other character is % and its code.
EncodeUriComponent(s) ==
  ConcatRange([ i \in 1..Len(s) |->
                  IF FormSafe(s[i]) \/ s[i] \in { "!", "~", "'", "(", ")" } THEN << s[i] >>
                  ELSE << "%" >> \o ToUpperCase(PadStart(ToString16(CharCode[s[i]]), 2, "0")) ],
              1, Len(s))

\* A response of a handler, and the placeholder while it has returned none.
Response(status, body) == [ status |-> status, body |-> body ]
NoHandlerResponse == Response(0, JObject(<< >>))
ErrorResponse(status, message) == Response(status, JObject(<< Entry(KeyError, JString(message)) >>))

\* A call of fetch, and the placeholder while none was made.
ProviderRequest(method, url, key, body) ==
  [ issued |-> TRUE, method |-> method, url |-> url, authorization |-> TextBearer \o key,
    body |-> body ]
NoProviderRequest ==
  [ issued |-> FALSE, method |-> "", url |-> << >>, authorization |-> << >>, body |-> << >> ]

\* response.ok
ResponseOk(response) == response.status \in 200..299

\* What the provider may answer: a session with a url, sessions without one,
\* a paid and an unpaid session, a body that is no JSON, and two refusals.
ProviderResponses ==
  { [ status |-> 200, text |-> << "{", "\"", "i", "d", "\"", ":", "\"", "c", "s", "_", "1", "\"", ",", "\"", "u", "r",
     "l", "\"", ":", "\"", "h", "t", "t", "p", "s", ":", "/", "/", "p", "a", "y", "/",
     "c", "s", "_", "1", "\"", "}" >> ],
    [ status |-> 200, text |-> << "{", "\"", "i", "d", "\"", ":", "\"", "c", "s", "_", "1", "\"", "}" >> ],
    [ status |-> 200, text |-> << "{", "\"", "i", "d", "\"", ":", "\"", "c", "s", "_", "1", "\"", ",", "\"", "u", "r",
     "l", "\"", ":", "\"", "\"", "}" >> ],
    [ status |-> 200,
      text |-> << "{", "\"", "i", "d", "\"", ":", "\"", "c", "s", "_", "1", "\"", ",", "\"", "p", "a",
     "y", "m", "e", "n", "t", "_", "s", "t", "a", "t", "u", "s", "\"", ":", "\"", "p",
     "a", "i", "d", "\"", ",", "\"", "p", "a", "y", "m", "e", "n", "t", "_", "i", "n",
     "t", "e", "n", "t", "\"", ":", "\"", "p", "i", "_", "1", "\"", "}" >> ],
    [ status |-> 200, text |-> << "{", "\"", "i", "d", "\"", ":", "\"", "c", "s", "_", "1", "\"", ",", "\"", "p", "a",
     "y", "m", "e", "n", "t", "_", "s", "t", "a", "t", "u", "s", "\"", ":", "\"", "u",
     "n", "p", "a", "i", "d", "\"", "}" >> ],
    [ status |-> 200, text |-> << "<", "h", "t", "m", "l", ">" >> ],
    [ status |-> 400, text |-> << "{", "\"", "e", "r", "r", "o", "r", "\"", ":", "{", "\"", "t", "y", "p", "e", "\"",
     ":", "\"", "i", "n", "v", "a", "l", "i", "d", "_", "r", "e", "q", "u", "e", "s",
     "t", "_", "e", "r", "r", "o", "r", "\"", "}", "}" >> ],
    [ status |-> 503, text |-> << >> ] }

\* Values of STRIPE_SECRET_KEY and of PUBLIC_SITE_URL.
SecretKeys == { Str(<< "s", "k", "_", "1" >>), Str(<< >>), NoString }
SiteUrls == { Str(<< "h", "t", "t", "p", "s", ":", "/", "/", "s", "h", "o", "p" >>), NoString }

\* const json = await request.json(); parsed = validateRequestBody(json)
ReadRequest ==
  /\ vcall.handler = "create"
  /\ vcall.pc = "start"
  /\ LET json == ParseJsonChars(vcall.text)
     IN  IF ~json.ok
         THEN /\ vcall' = [ vcall EXCEPT !.pc = "returned" ]
              /\ vres' = ErrorResponse(400, MsgInvalidJson)
         ELSE IF ~validateRequestBody(json.val).ok
         THEN /\ vcall' = [ vcall EXCEPT !.pc = "returned" ]
              /\ vres' = ErrorResponse(400, ValidationMessage(validateRequestBody(json.val).error))
         ELSE /\ vcall' = [ vcall EXCEPT !.pc = "env", !.parsed = validateRequestBody(json.val).value ]
              /\ vres' = vres
  /\ UNCHANGED << secret, deliv, customers, orders >>

\* stripeSecret = getEnv("STRIPE_SECRET_KEY")
ReadEnv ==
  /\ vcall.handler = "create"
  /\ vcall.pc = "env"
  /\ IF EnvMissing(vcall.env.secret)
     THEN /\ vcall' = [ vcall EXCEPT !.pc = "returned" ]
          /\ vres' = ErrorResponse(500, MsgMisconfigured)
     ELSE /\ vcall' = [ vcall EXCEPT !.pc = "build" ]
          /\ vres' = vres
  /\ UNCHANGED << secret, deliv, customers, orders >>

\* The payload is built and encoded and fetch is called.
IssueSessionCreate ==
  /\ vcall.handler = "create"
  /\ vcall.pc = "build"
  /\ LET publicSiteUrl == IF vcall.env.site.k = "str" THEN vcall.env.site.v ELSE TextLocalSite
         body == encodeStripeForm(Payload(vcall.parsed, publicSiteUrl))
     IN  vcall' = [ vcall EXCEPT !.pc = "await",
                                 !.sent = ProviderRequest("POST", TextSessionsUrl,
                                                          vcall.env.secret.v, body) ]
  /\ UNCHANGED << secret, deliv, customers, orders, vres >>

\* The GET handler up to its call of fetch.
StatusStart ==
  /\ vcall.handler = "status"
  /\ vcall.pc = "start"
  /\ IF vcall.sessionId.k # "str" \/ Len(vcall.sessionId.v) = 0
     THEN /\ vcall' = [ vcall EXCEPT !.pc = "returned" ]
          /\ vres' = ErrorResponse(400, MsgSessionIdRequired)
     ELSE IF EnvMissing(vcall.env.secret)
     THEN /\ vcall' = [ vcall EXCEPT !.pc = "returned" ]
          /\ vres' = ErrorResponse(500, MsgMisconfiguredStatus)
     ELSE /\ vcall' = [ vcall EXCEPT !.pc = "await",
                                     !.sent = ProviderRequest("GET",
                                                TextSessionsUrl \o << "/" >>
                                                  \o EncodeUriComponent(vcall.sessionId.v),
                                                vcall.env.secret.v, << >>) ]
          /\ vres' = vres
  /\ UNCHANGED << secret, deliv, customers, orders >>

\* The awaited fetch rejects: nothing around it catches, the handler's
\* promise rejects and the handler has returned no response.
FetchThrows ==
  /\ vcall.pc = "await"
  /\ vcall' = [ vcall EXCEPT !.pc = "thrown", !.transport = "failed" ]
  /\ UNCHANGED << secret, deliv, customers, orders, vres >>

\* The awaited fetch resolves with a response of the provider.
FetchResolves ==
  /\ vcall.pc = "await"
  /\ \E response \in ProviderResponses :
       vcall' = [ vcall EXCEPT !.pc = "response", !.transport = "ok", !.received = response ]
  /\ UNCHANGED << secret, deliv, customers, orders, vres >>

\* if (!response.ok) ...; session = await response.json(); if (!session.url) ...
ReadSession ==
  /\ vcall.handler = "create"
  /\ vcall.pc = "response"
  /\ LET session == ParseJsonChars(vcall.received.text)
     IN  IF ~ResponseOk(vcall.received)
         THEN /\ vcall' = [ vcall EXCEPT !.pc = "returned" ]
              /\ vres' = ErrorResponse(500, MsgCreateFailed)
         ELSE IF ~session.ok
         THEN /\ vcall' = [ vcall EXCEPT !.pc = "thrown" ]
              /\ vres' = vres
         ELSE IF NotNonEmptyString(Field(session.val, KeyUrl))
         THEN /\ vcall' = [ vcall EXCEPT !.pc = "returned" ]
              /\ vres' = ErrorResponse(500, MsgInvalidResponse)
         ELSE /\ vcall' = [ vcall EXCEPT !.pc = "returned" ]
              /\ vres' = Response(200, JObject(<< Entry(KeyUrl, Field(session.val, KeyUrl)),
                                                  Entry(KeySessionId, Field(session.val, KeyId)) >>))
  /\ UNCHANGED << secret, deliv, customers, orders >>

\* if (!response.ok) ...; session = await response.json(); paid = ...
StatusReadSession ==
  /\ vcall.handler = "status"
  /\ vcall.pc = "response"
  /\ LET session == ParseJsonChars(vcall.received.text)
     IN  IF ~ResponseOk(vcall.received)
         THEN /\ vcall' = [ vcall EXCEPT !.pc = "returned" ]
              /\ vres' = ErrorResponse(500, MsgFetchFailed)
         ELSE IF ~session.ok
         THEN /\ vcall' = [ vcall EXCEPT !.pc = "thrown" ]
              /\ vres' = vres
         ELSE /\ vcall' = [ vcall EXCEPT !.pc = "returned" ]
              /\ vres' = Response(200,
                   JObject(<< Entry(KeyPaid,
                                IF /\ Field(session.val, KeyPaymentStatus).j = "str"
                                   /\ Field(session.val, KeyPaymentStatus).v = TextPaid
                                THEN JLiteral("true") ELSE JLiteral("false")),
                              Entry(KeySessionId, Field(session.val, KeyId)),
                              Entry(KeyPaymentIntent,
                                IF Field(session.val, KeyPaymentIntentOfSession).j = "undef"
                                THEN JLiteral("null")
                                ELSE Field(session.val, KeyPaymentIntentOfSession)) >>))
  /\ UNCHANGED << secret, deliv, customers, orders >>

NextCheckout ==
  \/ ReadRequest
  \/ ReadEnv
  \/ IssueSessionCreate
  \/ StatusStart
  \/ FetchThrows
  \/ FetchResolves
  \/ ReadSession
  \/ StatusReadSession

\* Most items of a cart of the model.
MaxCartItems == 2

\* Items that pass validation: with options and notes, with a fractional
\* quantity, and with a currency of three characters that are not letters.
ItemLamp ==
  JObject(<< Entry(KeyProductName, JString(<< "L", "a", "m", "p" >>)),
             Entry(KeyPartNumber, JString(<< "P", "-", "1" >>)),
             Entry(KeyQty, JNumber(IntNum(2))),
             Entry(KeyOptions, JArray(<< OptionValue(<< "k" >>, << "1" >>),
                                         OptionValue(<< "m" >>, << "r", "e", "d" >>) >>)),
             Entry(KeyUnitPriceCents, JNumber(IntNum(1999))),
             Entry(KeyCurrency, JString(<< "E", "U", "R" >>)),
             Entry(KeyNotes, JString(<< "g", "i", "f", "t", " ", "&", " ", "w", "r", "a", "p" >>)) >>)
ItemCap ==
  ItemBody(<< "C", "a", "p" >>, << "P", "2" >>, Num(15, 1), IntNum(5), << "U", "S", "D" >>, << >>)
ItemDigits ==
  ItemBody(<< "P", "e", "n" >>, << "P", "3" >>, IntNum(1), IntNum(70), << "1", "2", "3" >>, << >>)
ValidItems == { ItemLamp, ItemCap, ItemDigits }

\* Items validateRequestBody refuses, one for each of its checks.
InvalidItems ==
  { JNumber(IntNum(7)),
    ItemBody(<< >>, << "P", "2" >>, IntNum(1), IntNum(5), << "U", "S", "D" >>, << >>),
    ItemBody(<< "C", "a", "p" >>, << >>, IntNum(1), IntNum(5), << "U", "S", "D" >>, << >>),
    ItemBody(<< "C", "a", "p" >>, << "P", "2" >>, IntNum(0), IntNum(5), << "U", "S", "D" >>, << >>),
    ItemBody(<< "C", "a", "p" >>, << "P", "2" >>, Num(5, 1), IntNum(5), << "U", "S", "D" >>, << >>),
    ItemBody(<< "C", "a", "p" >>, << "P", "2" >>, IntNum(1), IntNum(0), << "U", "S", "D" >>, << >>),
    ItemBody(<< "C", "a", "p" >>, << "P", "2" >>, IntNum(1), Num(15, 1), << "U", "S", "D" >>, << >>),
    ItemBody(<< "C", "a", "p" >>, << "P", "2" >>, IntNum(1), IntNum(5), << >>, << >>),
    ItemBody(<< "C", "a", "p" >>, << "P", "2" >>, IntNum(1), IntNum(5), << "E", "U" >>, << >>),
    ItemBody(<< "C", "a", "p" >>, << "P", "2" >>, IntNum(1), IntNum(5), << "E", "U", "R", "O" >>, << >>),
    ItemBody(<< "C", "a", "p" >>, << "P", "2" >>, IntNum(1), IntNum(5), << "e", "u", "r" >>, << >>),
    ItemBody(<< "C", "a", "p" >>, << "P", "2" >>, IntNum(1), IntNum(5), << "E", "u", "R" >>, << >>) }

\* The bodies of the requests: carts of valid items, a cart whose token
\* passes TokenLimit, a cart with a locale, carts with an item that is
\* refused after a valid one, bodies refused before their items are read,
\* and texts that are no JSON.
RequestTexts ==
  { JsonStringify(RequestBody(EmailA, items)) :
      items \in UNION { [ 1..k -> ValidItems ] : k \in 1..MaxCartItems } }
  \cup { JsonStringify(PaddedBody(TokenLimit + 1)) }
  \cup { JsonStringify(JObject(<< Entry(KeyCustomerEmail, JString(EmailA)),
                                  Entry(KeyItems, JArray(<< ItemCap >>)),
                                  Entry(KeyLocale, JString(<< "d", "e" >>)) >>)) }
  \cup { JsonStringify(RequestBody(EmailA, << ItemCap, item >>)) : item \in InvalidItems }
  \cup { JsonStringify(RequestBody(EmailA, << >>)),
         JsonStringify(RequestBody(<< >>, << ItemCap >>)),
         JsonStringify(JObject(<< Entry(KeyCustomerEmail, JNumber(IntNum(1))),
                                  Entry(KeyItems, JArray(<< ItemCap >>)) >>)),
         JsonStringify(JObject(<< Entry(KeyCustomerEmail, JString(EmailA)),
                                  Entry(KeyItems, JString(<< "n", "o", "n", "e" >>)) >>)),
         JsonStringify(JNumber(IntNum(7))),
         JsonStringify(JLiteral("null")),
         << "{", "\"", "c", "u", "s", "t", "o", "m", "e", "r", "E", "m", "a", "i", "l", "\"",
     ":" >>,
         << >> }

\* The session_id parameters of the status requests.
SessionIdParams == { Str(<< "c", "s", "_", "1" >>), Str(<< "c", "s", " ", "1", "/", "x" >>), Str(<< >>), NoString }

\* A call of a handler.
CheckoutCall(handler, text, sessionId, key, site) ==
  [ handler |-> handler, pc |-> "start", text |-> text, sessionId |-> sessionId,
    env |-> [ secret |-> key, site |-> site ],
    parsed |-> [ customerEmail |-> << >>, items |-> << >>, locale |-> NoString ],
    sent |-> NoProviderRequest, transport |-> "none",
    received |-> [ status |-> 0, text |-> << >> ] ]

InitCheckout ==
  /\ WebhookIdle
  /\ vres = NoHandlerResponse
  /\ \E key \in SecretKeys, site \in SiteUrls :
       \/ \E text \in RequestTexts : vcall = CheckoutCall("create", text, NoString, key, site)
       \/ \E sessionId \in SessionIdParams :
            vcall = CheckoutCall("status", << >>, sessionId, key, site)

SpecCheckout == InitCheckout /\ [][NextCheckout]_vars


(***************************************************************************)
(* C17 - C20: what the checkout handlers answer and send                   *)
(***************************************************************************)

\* The handler has finished: it returned a response or it threw.
HandlerFinished == vcall.pc \in { "returned", "thrown" }

\* The property names of the body of the response.
BodyKeys == { vres.body.v[i].key : i \in 1..Len(vres.body.v) }

\* The response is {error: <message>} with a status.
IsErrorResponse(status) ==
  /\ vres.status = status
  /\ BodyKeys = { KeyError }
  /\ Field(vres.body, KeyError).j = "str"

\* The body of the request is not valid JSON or fails validation.
RequestInvalid ==
  \/ ~ParseJsonChars(vcall.text).ok
  \/ ~validateRequestBody(ParseJsonChars(vcall.text).val).ok

\* The session the provider answered with has a url.
ReceivedHasUrl ==
  /\ ParseJsonChars(vcall.received.text).ok
  /\ ~NotNonEmptyString(Field(ParseJsonChars(vcall.received.text).val, KeyUrl))

\* The response of the create handler is the one its request and the
\* provider's answer call for.
AnswerMatchesRequest ==
  IF RequestInvalid THEN IsErrorResponse(400)
  ELSE IF \/ EnvMissing(vcall.env.secret)
          \/ ~ResponseOk(vcall.received)
          \/ ~ReceivedHasUrl
  THEN IsErrorResponse(500)
  ELSE /\ vres.status = 200
       /\ BodyKeys = { KeyUrl, KeySessionId }
       /\ vcall.sent.issued
       /\ vcall.transport = "ok"

\* C17: the create-checkout-session handler answers every request with
\* exactly one of 400 {error} (body not JSON or not valid), 500 {error}
\* (secret missing, provider call not OK, provider response without url) and
\* 200 {url, sessionId} otherwise, the 200 only after a successful provider
\* call.
C17_EveryRequestAnswered ==
  (vcall.handler = "create" /\ HandlerFinished) =>
    /\ vcall.pc = "returned"
    /\ AnswerMatchesRequest

\* Every response the create handler does return is the one its request
\* calls for.
ReturnedAnswersMatch ==
  (vcall.handler = "create" /\ vcall.pc = "returned") => AnswerMatchesRequest

\* Three upper-case letters.
IsCurrencyCode(s) == Len(s) = 3 /\ \A i \in 1..3 : CharCode[s[i]] \in 65..90

\* The item of a request body is one the specification admits.
ItemAdmitted(item) ==
  /\ ~NotNonEmptyString(Field(item, KeyProductName))
  /\ ~NotNonEmptyString(Field(item, KeyPartNumber))
  /\ Field(item, KeyQty).j = "num" /\ ~NumLess(Field(item, KeyQty).v, 1)
  /\ Field(item, KeyUnitPriceCents).j = "num"
  /\ Field(item, KeyUnitPriceCents).v.scale = 0
  /\ Field(item, KeyUnitPriceCents).v.num > 0
  /\ Field(item, KeyCurrency).j = "str"
  /\ IsCurrencyCode(Field(item, KeyCurrency).v)

\* The pairs of the form the session-create call carries.
SentPairs == PairsOfForm(vcall.sent.body)

\* The values in a form of the pairs of a name.
FormValues(pairs, name) == { pairs[k].value : k \in { n \in 1..Len(pairs) : pairs[n].name = name } }

\* The compact cart token the call carries.
SentToken ==
  CHOOSE token \in FormValues(SentPairs, KeyMetadata \o << "[" >> \o KeyCartCompact \o << "]" >>) : TRUE

\* The items of the compact cart of a token, none when it does not parse.
CompactItemsOf(token) ==
  IF ParseJsonChars(token).ok /\ Field(ParseJsonChars(token).val, KeyItems).j = "arr"
  THEN Field(ParseJsonChars(token).val, KeyItems).v
  ELSE << >>

\* C18: the session-create call is issued only for a request whose
\* customerEmail is a non-empty string, whose items is a non-empty list and
\* whose every item has a non-empty productName and partNumber, qty >= 1, an
\* integer unitPriceCents > 0 and a currency of three upper-case letters; the
\* c of every compact cart item of the call is three upper-case letters.
C18_CallOnlyForAdmittedCart ==
  (vcall.handler = "create" /\ vcall.sent.issued) =>
    LET json == ParseJsonChars(vcall.text)
        compact == CompactItemsOf(SentToken)
    IN  /\ json.ok
        /\ ~NotNonEmptyString(Field(json.val, KeyCustomerEmail))
        /\ Field(json.val, KeyItems).j = "arr"
        /\ Len(Field(json.val, KeyItems).v) > 0
        /\ \A i \in 1..Len(Field(json.val, KeyItems).v) : ItemAdmitted(Field(json.val, KeyItems).v[i])
        /\ \A i \in 1..Len(compact) :
             Field(compact[i], KeyC).j = "str" /\ IsCurrencyCode(Field(compact[i], KeyC).v)

\* C19: no error crashes a handler: the create-checkout-session and the
\* checkout-status handler return a response with a status and a JSON
\* object on every branch, and one of 500 {error} when the fetch of the
\* provider throws.
C19_NoBranchThrows ==
  HandlerFinished =>
    /\ vcall.pc = "returned"
    /\ vres.status \in { 200, 400, 500 }
    /\ vres.body.j = "obj"
    /\ vcall.transport = "failed" => IsErrorResponse(500)

\* The key of a property of the i-th line item (from 1) in the form.
LineItemKey(i, path) ==
  KeyLineItems \o << "[" >> \o ToDecimal(i - 1) \o << "]" >>
  \o ConcatRange([ k \in 1..Len(path) |-> << "[" >> \o path[k] \o << "]" >> ], 1, Len(path))

\* The places of the line items of a form.
LineItemPlaces(pairs) ==
  { StepsOfKey(pairs[k].name)[2] :
      k \in { n \in 1..Len(pairs) : StepsOfKey(pairs[n].name)[1] = KeyLineItems } }

\* C20: the session-create request carries one line item per cart item in
\* cart order; the up of the i-th compact cart item is the unit_amount of
\* the i-th line item and its q is that line item's quantity.
C20_LineItemsMatchCompactCart ==
  (vcall.handler = "create" /\ vcall.sent.issued) =>
    LET cart == Field(ParseJsonChars(vcall.text).val, KeyItems).v
        pairs == SentPairs
        compact == CompactItemsOf(SentToken)
    IN  /\ LineItemPlaces(pairs) = { ToDecimal(i - 1) : i \in 1..Len(cart) }
        /\ \A i \in 1..Len(cart) :
             /\ FormValues(pairs, LineItemKey(i, << KeyPriceData, KeyProductData, KeyName >>))
                  = { Field(cart[i], KeyProductName).v }
             /\ FormValues(pairs, LineItemKey(i, << KeyPriceData, KeyUnitAmount >>))
                  = { NumberToString(Field(cart[i], KeyUnitPriceCents).v) }
             /\ FormValues(pairs, LineItemKey(i, << KeyQuantity >>))
                  = { NumberToString(Field(cart[i], KeyQty).v) }
        /\ Len(compact) \in { 0, Len(cart) }
        /\ Len(compact) = 0 => Len(SentToken) = TokenKept + 3
        /\ \A i \in 1..Len(compact) :
             /\ Field(compact[i], KeyUp).j = "num"
             /\ Field(compact[i], KeyQ).j = "num"
             /\ FormValues(pairs, LineItemKey(i, << KeyPriceData, KeyUnitAmount >>))
                  = { NumberToString(Field(compact[i], KeyUp).v) }
             /\ FormValues(pairs, LineItemKey(i, << KeyQuantity >>))
                  = { NumberToString(Field(compact[i], KeyQ).v) }

\* A call was issued for a cart of a lamp (2 at 1999) and a cap (1.5 at 5),
\* and its token carries both compact items.
C20_Witness ==
  /\ vcall.handler = "create"
  /\ vcall.pc = "await"
  /\ vcall.sent.issued
  /\ vcall.text = JsonStringify(RequestBody(EmailA, << ItemLamp, ItemCap >>))
  /\ Len(CompactItemsOf(SentToken)) = 2
  /\ FormValues(SentPairs, LineItemKey(1, << KeyQuantity >>)) = { << "2" >> }
  /\ FormValues(SentPairs, LineItemKey(2, << KeyQuantity >>)) = { << "1", ".", "5" >> }
  /\ FormValues(SentPairs, LineItemKey(1, << KeyPriceData, KeyUnitAmount >>))
       = { << "1", "9", "9", "9" >> }


(***************************************************************************)
(* C21 - a missing secret                                                  *)
(***************************************************************************)

\* sub occurs in s.
Contains(s, sub) ==
  \E i \in 1..(Len(s) - Len(sub) + 1) : SubSeq(s, i, i + Len(sub) - 1) = sub

\* The handler has come to read its secret: the create handler after a body
\* that is valid, the status handler after a session_id that is present.
SecretWasRead ==
  IF vcall.handler = "create" THEN ~RequestInvalid
  ELSE vcall.sessionId.k = "str" /\ Len(vcall.sessionId.v) > 0

\* C21: when the secret of the provider is missing, the create and the
\* status handler return 500 {error} before any call of the provider, and
\* the message does not hold the name of the missing key.
C21_MissingSecretGenericMessage ==
  (HandlerFinished /\ SecretWasRead /\ EnvMissing(vcall.env.secret)) =>
    /\ IsErrorResponse(500)
    /\ ~vcall.sent.issued
    /\ ~Contains(Field(vres.body, KeyError).v, TextStripeSecretKey)

\* The same without the last part: a 500 {error} and no call of the
\* provider.
MissingSecretStops ==
  (HandlerFinished /\ SecretWasRead /\ EnvMissing(vcall.env.secret)) =>
    /\ IsErrorResponse(500)
    /\ ~vcall.sent.issued


(***************************************************************************)
(* The cart of the browser (lib/cart.ts).  vcall holds what localStorage   *)
(* keeps under the cart's key.                                             *)
(***************************************************************************)

\* Most lines of a cart and largest quantity of a line.
MaxLines == 2
MaxLineQty == 3

\* The instants the clock shows when a line is created: the lines of the
\* model are created within one millisecond, so that they tie in the sort.
Instants == { 1 }

OptionLed == [ code |-> << "l", "e", "d" >>, value |-> << "2" >> ]
OptionIp == [ code |-> << "i", "p" >>, value |-> << "6", "5" >> ]

\* An item handed to addItem.
IncomingItem(partNumber, notes, options, qty) ==
  [ partNumber |-> partNumber, notes |-> notes, options |-> options, qty |-> qty ]

\* The configurations handed to addItem: two part numbers, notes absent,
\* empty and written, and options none, two, and the two swapped.
Configurations ==
  { [ partNumber |-> << "A" >>, notes |-> NoString, options |-> << >> ],
    [ partNumber |-> << "A" >>, notes |-> Str(<< >>), options |-> << >> ],
    [ partNumber |-> << "A" >>, notes |-> Str(<< "n" >>), options |-> << >> ],
    [ partNumber |-> << "A" >>, notes |-> NoString, options |-> << OptionLed, OptionIp >> ],
    [ partNumber |-> << "A" >>, notes |-> NoString, options |-> << OptionIp, OptionLed >> ],
    [ partNumber |-> << "B" >>, notes |-> NoString, options |-> << >> ] }

\* The quantities handed to addItem and to updateQty.
AddQuantities == { 1, 2 }
UpdateQuantities == { 0, 1 }

\* items.sort((a, b) => a.createdAt.localeCompare(b.createdAt)): the sort is
\* stable, so lines of one instant keep their order and lines already in
\* order stay as they are.
SortByCreatedAt(items) ==
  IF \A i \in 1..(Len(items) - 1) : items[i].createdAt <= items[i + 1].createdAt THEN items
  ELSE LET last == CHOOSE t \in { items[i].createdAt : i \in 1..Len(items) } :
                     \A i \in 1..Len(items) : items[i].createdAt <= t
       IN  ConcatRange([ t \in 1..last |-> SelectSeq(items, LAMBDA it : it.createdAt = t) ], 1, last)

\* coerceCartState on the items of the model, whose every field has its
\* type: every line is kept, and the lines are sorted.
coerceCartState(items) == SortByCreatedAt(items)

\* loadCart, and saveCart as what loadCart reads after it.
loadCart == coerceCartState(vcall.storage)
saveCart(items) == coerceCartState(items)

\* existing.notes ?? ""
NotesOrEmpty(notes) == IF notes.k = "str" THEN notes.v ELSE << >>

\* Mutant: an absent note and an empty note are told apart.
isSameConfiguredItemRawNotes(existing, incoming) ==
  /\ existing.partNumber = incoming.partNumber
  /\ existing.notes = incoming.notes
  /\ Len(existing.options) = Len(incoming.options)
  /\ \A i \in 1..Len(existing.options) :
       /\ existing.options[i].code = incoming.options[i].code
       /\ existing.options[i].value = incoming.options[i].value

isSameConfiguredItem(existing, incoming) ==
  /\ existing.partNumber = incoming.partNumber
  /\ NotesOrEmpty(existing.notes) = NotesOrEmpty(incoming.notes)
  /\ Len(existing.options) = Len(incoming.options)
  /\ \A i \in 1..Len(existing.options) :
       /\ existing.options[i].code = incoming.options[i].code
       /\ existing.options[i].value = incoming.options[i].value

\* state.items.find(it => isSameConfiguredItem(it, item)): its place, 0 for
\* none.
FindSame(items, item) ==
  LET same == { i \in 1..Len(items) : isSameConfiguredItem(items[i], item) }
  IN  IF same = {} THEN 0 ELSE CHOOSE i \in same : \A k \in same : i <= k

\* Math.max(1, qty)
AtLeastOne(qty) == IF qty < 1 THEN 1 ELSE qty

\* generateId(): ids are random and never repeat; the model hands out the
\* least id no stored line carries.
generateId(items) ==
  CHOOSE id \in 1..(Len(items) + 1) :
    /\ id \notin { items[i].id : i \in 1..Len(items) }
    /\ \A k \in 1..(id - 1) : k \in { items[i].id : i \in 1..Len(items) }

\* addItem(item) at an instant of the clock.
addItem(item, now) ==
  LET items == loadCart
      at == FindSame(items, item)
  IN  IF at # 0
      THEN /\ items[at].qty + item.qty <= MaxLineQty
           /\ vcall' = [ vcall EXCEPT !.storage = saveCart([ items EXCEPT ![at].qty = @ + item.qty ]) ]
      ELSE /\ Len(items) < MaxLines
           /\ LET newItem == [ id |-> generateId(items), partNumber |-> item.partNumber,
                               notes |-> item.notes, options |-> item.options, qty |-> item.qty,
                               createdAt |-> now ]
              IN  vcall' = [ vcall EXCEPT !.storage = saveCart(SortByCreatedAt(Append(items, newItem))) ]

AddItem ==
  /\ vcall.pc = "cart"
  /\ \E c \in Configurations, qty \in AddQuantities, now \in Instants :
       addItem(IncomingItem(c.partNumber, c.notes, c.options, qty), now)
  /\ UNCHANGED << secret, deliv, customers, orders, vres >>

\* updateQty(itemId, qty)
updateQty(itemId, qty) ==
  LET items == loadCart
      found == { i \in 1..Len(items) : items[i].id = itemId }
  IN  IF found = {} THEN vcall' = vcall
      ELSE LET idx == CHOOSE i \in found : \A k \in found : i <= k
           IN  IF qty <= 0
               THEN vcall' = [ vcall EXCEPT !.storage =
                                 saveCart(SubSeq(items, 1, idx - 1) \o SubSeq(items, idx + 1, Len(items))) ]
               ELSE vcall' = [ vcall EXCEPT !.storage = saveCart([ items EXCEPT ![idx].qty = AtLeastOne(qty) ]) ]

UpdateQty ==
  /\ vcall.pc = "cart"
  /\ \E itemId \in 1..MaxLines, qty \in UpdateQuantities : updateQty(itemId, qty)
  /\ UNCHANGED << secret, deliv, customers, orders, vres >>

\* removeItem(itemId)
removeItem(itemId) ==
  LET items == loadCart
      nextItems == SelectSeq(items, LAMBDA it : it.id # itemId)
  IN  IF Len(nextItems) = Len(items) THEN vcall' = vcall
      ELSE vcall' = [ vcall EXCEPT !.storage = saveCart(nextItems) ]

RemoveItem ==
  /\ vcall.pc = "cart"
  /\ \E itemId \in 1..MaxLines : removeItem(itemId)
  /\ UNCHANGED << secret, deliv, customers, orders, vres >>

\* clearCart: the key is removed, and loadCart reads no line.
ClearCart ==
  /\ vcall.pc = "cart"
  /\ vcall' = [ vcall EXCEPT !.storage = << >> ]
  /\ UNCHANGED << secret, deliv, customers, orders, vres >>

NextCart == AddItem \/ UpdateQty \/ RemoveItem \/ ClearCart

\* An empty cart.
InitCart ==
  /\ WebhookIdle
  /\ vcall = [ pc |-> "cart", storage |-> << >> ]
  /\ vres = "none"

SpecCart == InitCart /\ [][NextCart]_vars


(***************************************************************************)
(* C22 - one line per configuration                                        *)
(***************************************************************************)

\* The (code, value) pairs of the options of an item, in their order.
OptionPairs(item) ==
  [ i \in 1..Len(item.options) |-> << item.options[i].code, item.options[i].value >> ]

\* Two items are the same configuration: equal part numbers, equal notes
\* with an absent note read as the empty one, and equal options pair by
\* pair in their order.
SameConfiguration(a, b) ==
  /\ a.partNumber = b.partNumber
  /\ (IF a.notes = NoString THEN << >> ELSE a.notes.v)
       = (IF b.notes = NoString THEN << >> ELSE b.notes.v)
  /\ OptionPairs(a) = OptionPairs(b)

\* No two stored lines are the same configuration.
NoTwoLinesSame ==
  \A i, k \in 1..Len(vcall.storage) :
    i # k => ~SameConfiguration(vcall.storage[i], vcall.storage[k])

\* What a step of addItem(item) does to the stored lines.
AddItemEffect(item) ==
  LET old == vcall.storage
      new == vcall'.storage
      same == { i \in 1..Len(old) : SameConfiguration(old[i], item) }
  IN  IF same # {}
      THEN /\ Len(new) = Len(old)
           /\ \E i \in same :
                /\ new[i] = [ old[i] EXCEPT !.qty = old[i].qty + item.qty ]
                /\ \A k \in 1..Len(old) : k # i => new[k] = old[k]
      ELSE /\ Len(new) = Len(old) + 1
           /\ \E k \in 1..Len(new) :
                /\ new[k].partNumber = item.partNumber
                /\ new[k].notes = item.notes
                /\ new[k].options = item.options
                /\ new[k].qty = item.qty
                /\ SubSeq(new, 1, k - 1) \o SubSeq(new, k + 1, Len(new)) = old

\* C22: addItem adds the incoming quantity to a stored line, and leaves the
\* number of lines as it is, exactly when the incoming item is the same
\* configuration as that line, and adds one new line otherwise; and after
\* any sequence of addItem, updateQty, removeItem and clearCart from an empty
\* cart no two stored lines are the same configuration.
C22_OneLinePerConfiguration ==
  /\ []NoTwoLinesSame
  /\ [][ \A c \in Configurations, qty \in AddQuantities, now \in Instants :
           addItem(IncomingItem(c.partNumber, c.notes, c.options, qty), now)
             => AddItemEffect(IncomingItem(c.partNumber, c.notes, c.options, qty)) ]_vars

\* Two lines are stored, and one of them, stored with an empty note, has
\* the largest quantity, which only accumulation yields.
C22_Witness ==
  /\ vcall.pc = "cart"
  /\ Len(vcall.storage) = MaxLines
  /\ \E i \in 1..Len(vcall.storage) :
       /\ vcall.storage[i].qty = MaxLineQty
       /\ vcall.storage[i].notes = Str(<< >>)


(***************************************************************************)
(* C23 - the order is created whatever becomes of the customer             *)
(***************************************************************************)

\* The delivery carried a completed event whose cart decodes to a list of
\* at least one item, and its handler has answered.
ProjectedDeliveries ==
  { d \in Deliveries :
      /\ deliv[d].pc = "done"
      /\ deliv[d].dispatched
      /\ EventOf(deliv[d]).t = "object"
      /\ EventOf(deliv[d]).type = CompletedType
      /\ EventOf(deliv[d]).data.t = "object"
      /\ SessionOf(EventOf(deliv[d])).t = "object"
      /\ ItemsOf(CompactOf(EventOf(deliv[d]))).t = "array"
      /\ Len(ItemsOf(CompactOf(EventOf(deliv[d]))).elems) > 0 }

\* The places among the calls of a delivery of the calls of the given kinds.
CallsOfKind(d, ops) == { i \in 1..Len(deliv[d].calls) : deliv[d].calls[i].op \in ops }

\* A customer search or a customer create of the delivery was refused or
\* threw.
CustomerCallFailed(d) ==
  \E i \in CallsOfKind(d, { "search", "create" }) : deliv[d].calls[i].outcome \in { "status", "throw" }

\* Neither the cart nor the session of the delivery names an email.
NoEmailAtAll(d) ==
  LET compact == CompactOf(EventOf(deliv[d]))
      session == SessionOf(EventOf(deliv[d]))
  IN  /\ compact.t # "object" \/ NoEmail(compact.email)
      /\ NoEmail(session.customer_email)

\* C23: for a completed event with at least one decoded item the
\* order-create call is issued exactly once when the customer search or the
\* customer create fails, by a non-OK status or by an exception, and when no
\* email is available at all, in which case no customer call is issued; the
\* order payload then carries no customer_id.
C23_OrderDespiteCustomerFailure ==
  \A d \in ProjectedDeliveries :
    (CustomerCallFailed(d) \/ NoEmailAtAll(d)) =>
      /\ Cardinality(CallsOfKind(d, { "order" })) = 1
      /\ \A i \in CallsOfKind(d, { "order" }) : deliv[d].calls[i].arg.customer_id = 0
      /\ NoEmailAtAll(d) => CallsOfKind(d, { "search", "create" }) = {}

\* A delivery whose customer search found nobody and whose customer create
\* threw has issued its order-create call.
C23_Witness ==
  \E d \in ProjectedDeliveries :
    /\ \E i \in CallsOfKind(d, { "search" }) : deliv[d].calls[i].outcome = "ok"
    /\ \E i \in CallsOfKind(d, { "create" }) : deliv[d].calls[i].outcome = "throw"
    /\ \E i \in CallsOfKind(d, { "order" }) : deliv[d].calls[i].arg.customer_id = 0


(***************************************************************************)
(* From the checkout to the webhook: a session and its completed event     *)
(***************************************************************************)

\* The bodies of the checkout requests of the paid sessions: two small
\* carts, and carts whose serialization is at the token limit, one character
\* over it and PadAbove characters over it.
PaidTexts ==
  { JsonStringify(RequestBody(EmailA, << item >>)) : item \in { ItemLamp, ItemCap } }
  \cup { JsonStringify(PaddedBody(total)) :
           total \in { TokenLimit, TokenLimit + 1, TokenLimit + PadAbove } }

\* The session the provider keeps of the session-create call the handler has
\* sent: its id, the customer_email and the metadata[cart_compact] of the
\* form.
CreatedSession ==
  SessionValue(<< "c", "s", "_", "1" >>,
               Str(CHOOSE email \in FormValues(SentPairs, KeyCustomerEmailOfSession) : TRUE),
               Intent,
               Metadata(StringAttribute(SentToken)))

\* The body of the checkout.session.completed event of that session.
CompletedBody ==
  BodyText(<< "c", "s", "_", "1", "/" >> \o SentToken, Completed(<< "e", "c" >>, CreatedSession))

\* The session is paid and the provider delivers its completed event to the
\* webhook, signed with the webhook secret or by somebody else.
DeliverCompleted ==
  /\ vcall.handler = "create"
  /\ vcall.pc = "returned"
  /\ vres.status = 200
  /\ deliv = << >>
  /\ \E sig \in { SignedHeader(CompletedBody, WebhookSecret), ForgedHeader(CompletedBody) } :
       deliv' = << NewDelivery(Request(CompletedBody, sig)) >>
  /\ UNCHANGED << secret, customers, orders, vcall, vres >>

NextPaid ==
  \/ ReadRequest
  \/ ReadEnv
  \/ IssueSessionCreate
  \/ FetchThrows
  \/ FetchResolves
  \/ ReadSession
  \/ DeliverCompleted
  \/ NextOf(Outcomes)

\* A checkout request with a valid cart arrives; the secrets are configured.
InitPaid ==
  /\ secret = Str(WebhookSecret)
  /\ deliv = << >>
  /\ customers \in InitialDirectories
  /\ orders = << >>
  /\ vres = NoHandlerResponse
  /\ \E text \in PaidTexts, site \in SiteUrls :
       vcall = CheckoutCall("create", text, NoString, Str(<< "s", "k", "_", "1" >>), site)

SpecPaid == InitPaid /\ [][NextPaid]_vars

(***************************************************************************)
(* C24 - a paid order is lost without a trace                              *)
(***************************************************************************)

\* The compact serialization of the cart of the checkout request has more
\* than 4500 characters.
CartOverLimit == Len(JsonStringify(CompactCart(vcall.parsed))) > 4500

\* The delivery carries the completed event of the created session with a
\* valid signature.
SignedCompleted(d) ==
  /\ deliv[d].req.sig = SignedHeader(deliv[d].req.body, WebhookSecret)
  /\ deliv[d].req.body.wf
  /\ deliv[d].req.body.val.type = CompletedType
  /\ SessionOf(deliv[d].req.body.val).metadata = Metadata(StringAttribute(SentToken))

\* C24: for a checkout session created from a valid cart whose compact
\* serialization exceeds 4500 characters, the validly signed
\* checkout.session.completed webhook carrying the token of that session
\* issues no customer call and no order-create call, and responds 200 "ok".
C24_PaidOrderLost ==
  \A d \in Deliveries :
    (CartOverLimit /\ SignedCompleted(d)) =>
      /\ deliv[d].calls = << >>
      /\ deliv[d].pc = "done" => deliv[d].response = [ status |-> 200, body |-> "ok" ]

\* The handler has answered 200 "ok" to the signed completed event of a
\* session whose cart serializes to 4501 characters, after dispatching it
\* and without a single call.
C24_Witness ==
  \E d \in Deliveries :
    /\ Len(JsonStringify(CompactCart(vcall.parsed))) = 4501
    /\ SignedCompleted(d)
    /\ deliv[d].valid = "true"
    /\ deliv[d].dispatched
    /\ deliv[d].pc = "done"
    /\ deliv[d].calls = << >>
    /\ deliv[d].response = [ status |-> 200, body |-> "ok" ]
====
